---- MODULE Spec2Model ----
(***************************************************************************)
(* Model of the habit-engine finalization engine (src/engine.py) and of    *)
(* the log-saving entry points of the UI (src/app.py).                     *)
(*                                                                         *)
(* Dates are integers (day numbers).  The persistent store is the four     *)
(* tables app_meta, streaks, rule_logs and rule_defs.  Every handler is    *)
(* one action: single writer, one synchronous call at a time.              *)
(***************************************************************************)
EXTENDS Integers, Sequences, FiniteSets, TLC

\* ------------------------------------------------------------------ bounds
\* Last calendar day explored by the general specification.
MaxDay == 3
\* Last calendar day explored by the 7-day-window specification.
MaxDayW7 == 10

\* SQL NULL / Python None for a date column.
NULL == -1

\* dt.date.max, the end of an open-ended span in the overlap scan.
DateMax == 9999

\* The rule keys of the explored catalogs, and their ORDER BY rule_key ASC.
KeyOrder == <<"a", "b", "c", "d">>
\* The rule keys typed into the forms.
Keys == {KeyOrder[1], KeyOrder[2]}

VARIABLES
    today,       \* the civil date _today() returns
    horizon,     \* last day the exploration lets `today` reach
    app_meta,    \* app_meta.start_date of row id=1, NULL when the row is absent
    streaks,     \* table streaks, in streak_id order (streak_id = index)
    rule_logs,   \* table rule_logs: set of [log_date, rule_key, state]
    rule_defs,   \* table rule_defs: set of version rows
    last,        \* the last operation called, its argument and how it ended
    events,      \* the events list the last process_up_to returned
    trace,       \* the day steps the last process_up_to performed
    calls        \* the calls of the concurrent sessions and the store access each is at

vars == <<today, horizon, app_meta, streaks, rule_logs, rule_defs, last, events, trace,
          calls>>

\* The store as one value, as the handlers read and write it through `sb`.
Store == [app_meta |-> app_meta, streaks |-> streaks,
          rule_logs |-> rule_logs, rule_defs |-> rule_defs]

\* ------------------------------------------------------------ small helpers
\* rule_state_json = {} / end_reason_json = None
EmptyRuleState == [k \in {} |-> [ver |-> 0, widx |-> 0, misses |-> 0]]
NoReason == [type |-> "NONE", rule_key |-> "", date |-> NULL, misses_in_window |-> 0,
             buffer_misses |-> 0, window_days |-> 0, rule_version |-> 0]

\* The sessions that run against the store at the same time.
Procs == {1, 2}

\* The local variables of a session without a call in progress.
IdleCall ==
    [op |-> "none", pc |-> "idle", max_date |-> NULL, states |-> <<>>, sid |-> 0,
     s_start |-> NULL, next_day |-> NULL, picked |-> {}, i |-> 0,
     rule_state |-> EmptyRuleState, end_reason |-> NoReason, ret |-> FALSE]

\* dict[key] = value
DictSet(d, key, value) == [k \in (DOMAIN d) \cup {key} |-> IF k = key THEN value ELSE d[k]]

\* ------------------------------------------------------ engine.py: store reads
\* engine.ensure_app_start_date: the stored start_date, inserted as today when absent.
ensure_app_start_date(db, now) ==
    IF db.app_meta # NULL THEN db ELSE [db EXCEPT !.app_meta = now]

\* engine.get_open_streak: the OPEN row of highest streak_id, 0 for None.
get_open_streak(db) ==
    LET open == {i \in DOMAIN db.streaks : db.streaks[i].status = "OPEN"}
    IN  IF open = {} THEN 0 ELSE CHOOSE i \in open : \A j \in open : j <= i

\* A fresh row that takes over the counters of the row before it.
CreateOpenStreakCarry(db, start_date) ==
    [db EXCEPT !.streaks = Append(@,
        [start_date |-> start_date,
         end_date |-> NULL,
         status |-> "OPEN",
         processed_through_date |-> start_date - 1,
         rule_state_json |-> IF Len(db.streaks) = 0 THEN EmptyRuleState
                             ELSE db.streaks[Len(db.streaks)].rule_state_json,
         end_reason_json |-> NoReason])]

\* A fresh row whose boundary is its own first day.
CreateOpenStreakSkip(db, start_date) ==
    [db EXCEPT !.streaks = Append(@,
        [start_date |-> start_date,
         end_date |-> NULL,
         status |-> "OPEN",
         processed_through_date |-> start_date,
         rule_state_json |-> EmptyRuleState,
         end_reason_json |-> NoReason])]

\* engine.create_open_streak: insert a fresh OPEN row.
create_open_streak(db, start_date) ==
    [db EXCEPT !.streaks = Append(@,
        [start_date |-> start_date,
         end_date |-> NULL,
         status |-> "OPEN",
         processed_through_date |-> start_date - 1,
         rule_state_json |-> EmptyRuleState,
         end_reason_json |-> NoReason])]

\* A close that writes the end of the row but leaves its status.
CloseKeepsStatus(db, sid, end_date, reason) ==
    create_open_streak(
        [db EXCEPT !.streaks[sid] =
            [@ EXCEPT !.end_date = end_date,
                      !.processed_through_date = end_date,
                      !.end_reason_json = reason]],
        end_date + 1)

\* A closing update without its streak_id filter: every row takes the closure.
CloseEveryRow(db, sid, end_date, reason) ==
    [db EXCEPT !.streaks =
        [i \in DOMAIN @ |->
            [@[i] EXCEPT !.end_date = end_date,
                         !.status = "CLOSED",
                         !.processed_through_date = end_date,
                         !.end_reason_json = reason]]]

\* Lines 84-93 of close_streak_and_open_next: the update that closes row sid.
CloseRow(db, sid, end_date, reason) ==
    [db EXCEPT !.streaks[sid] =
        [@ EXCEPT !.end_date = end_date,
                  !.status = "CLOSED",
                  !.processed_through_date = end_date,
                  !.end_reason_json = reason]]

\* A close whose next row starts on the closing day itself.
CloseOpensSameDay(db, sid, end_date, reason) ==
    create_open_streak(CloseRow(db, sid, end_date, reason), end_date)

\* engine.close_streak_and_open_next: close row sid on end_date, then open the next.
close_streak_and_open_next(db, sid, end_date, reason) ==
    create_open_streak(CloseRow(db, sid, end_date, reason), end_date + 1)

\* engine._row_applies_on
row_applies_on(r, d) ==
    IF r.effective_from > d THEN FALSE
    ELSE IF r.effective_to # NULL /\ d > r.effective_to THEN FALSE
    ELSE TRUE

\* engine._load_applicable_rule_rows_for_date: per rule_key, scanning its rows with
\* effective_from <= d by effective_from descending, the first row that applies on d.
\* The result is the set of picked rows (at most one per key).
load_applicable_rule_rows_for_date(db, d) ==
    LET rows == {r \in db.rule_defs : r.effective_from <= d}
        applying(k) == {r \in rows : r.rule_key = k /\ row_applies_on(r, d)}
    IN  {r \in rows : /\ row_applies_on(r, d)
                      /\ r = CHOOSE x \in applying(r.rule_key) :
                                \A y \in applying(r.rule_key) :
                                    y.effective_from <= x.effective_from}

\* engine._get_log_state: the stored state, "UNKNOWN" when there is no row.
get_log_state(db, d, rule_key) ==
    LET row == {l \in db.rule_logs : l.log_date = d /\ l.rule_key = rule_key}
    IN  IF row = {} THEN "UNKNOWN" ELSE (CHOOSE l \in row : TRUE).state

\* upsert on conflict (log_date, rule_key)
UpsertLog(logs, d, rule_key, state) ==
    {l \in logs : ~(l.log_date = d /\ l.rule_key = rule_key)}
        \cup {[log_date |-> d, rule_key |-> rule_key, state |-> state]}

\* engine._force_miss_if_unknown: the logs after the coercion (the returned state
\* is get_log_state of the result).
force_miss_if_unknown(db, d, rule_key, state) ==
    IF state # "UNKNOWN" THEN db
    ELSE [db EXCEPT !.rule_logs = UpsertLog(@, d, rule_key, "MISS")]

\* Windows counted from the calendar epoch instead of the streak's start.
CalcWindowIndexEpoch(streak_start, d, window_days) ==
    d \div window_days

\* engine._calc_window_index
calc_window_index(streak_start, d, window_days) ==
    (d - streak_start) \div window_days

\* An overlap scan that lets a span start on the day its predecessor ends.
ValidateStrictOverlap(db) ==
    LET End(r) == IF r.effective_to = NULL THEN DateMax ELSE r.effective_to
        malformed == \E r \in db.rule_defs :
                        r.effective_to # NULL /\ r.effective_to < r.effective_from
        Pred(r, p) == /\ p.rule_key = r.rule_key /\ p # r
                      /\ p.effective_from <= r.effective_from
                      /\ \A q \in db.rule_defs :
                            (q.rule_key = r.rule_key /\ q # r /\ q # p
                             /\ q.effective_from <= r.effective_from)
                                => q.effective_from <= p.effective_from
        overlap == \E r, p \in db.rule_defs : Pred(r, p) /\ End(p) > r.effective_from
    IN  ~malformed /\ ~overlap

\* A validation of the ranges alone, without the overlap scan.
ValidateRangesOnly(db) ==
    ~\E r \in db.rule_defs : r.effective_to # NULL /\ r.effective_to < r.effective_from

\* engine._validate_rule_defs_no_overlaps: TRUE when it returns, FALSE when it raises
\* ValueError.  Per key the spans are sorted by effective_from and each span is
\* compared with its predecessor only.
validate_rule_defs_no_overlaps(db) ==
    LET End(r) == IF r.effective_to = NULL THEN DateMax ELSE r.effective_to
        malformed == \E r \in db.rule_defs :
                        r.effective_to # NULL /\ r.effective_to < r.effective_from
        Pred(r, p) == /\ p.rule_key = r.rule_key /\ p # r
                      /\ p.effective_from <= r.effective_from
                      /\ \A q \in db.rule_defs :
                            (q.rule_key = r.rule_key /\ q # r /\ q # p
                             /\ q.effective_from <= r.effective_from)
                                => q.effective_from <= p.effective_from
        overlap == \E r, p \in db.rule_defs : Pred(r, p) /\ End(p) >= r.effective_from
    IN  ~malformed /\ ~overlap

\* ------------------------------------------------- engine.process_up_to
\* A buffer that is crossed as soon as it is used up.
BufferCrossedAtLimit(misses, buffer_misses) == misses >= buffer_misses

\* `if st["misses"] > buffer_misses`
BufferCrossed(misses, buffer_misses) == misses > buffer_misses

\* Counters that survive a change of window index.
EnterWindowKeeps(rule_state, rdef, widx) ==
    IF rdef.rule_key \notin DOMAIN rule_state
    THEN [ver |-> rdef.version, widx |-> widx, misses |-> 0]
    ELSE [ver |-> rdef.version, widx |-> widx,
          misses |-> rule_state[rdef.rule_key].misses]

\* Lines 194-208: the counters of the rule when its log is read: fresh when nothing is
\* stored, reset when the stored window index differs, the version always current.
EnterWindow(rule_state, rdef, widx) ==
    IF rdef.rule_key \notin DOMAIN rule_state
    THEN [ver |-> rdef.version, widx |-> widx, misses |-> 0]
    ELSE [ver |-> rdef.version, widx |-> widx,
          misses |-> IF rule_state[rdef.rule_key].widx # widx
                     THEN 0 ELSE rule_state[rdef.rule_key].misses]

\* Lines 214-231: count the day's state into st0 and decide whether the streak ends.
CountDay(acc, rdef, next_day, st0, state) ==
    [db |-> force_miss_if_unknown(acc.db, next_day, rdef.rule_key, state),
     rule_state |-> DictSet(acc.rule_state, rdef.rule_key,
                            [st0 EXCEPT !.misses = IF state = "UNKNOWN" \/ state = "MISS"
                                                   THEN @ + 1 ELSE @]),
     ended |-> /\ (state = "UNKNOWN" \/ state = "MISS")
               /\ BufferCrossed(st0.misses + 1, rdef.buffer_misses),
     end_reason |-> IF /\ (state = "UNKNOWN" \/ state = "MISS")
                       /\ BufferCrossed(st0.misses + 1, rdef.buffer_misses)
                    THEN [type |-> "RULE", rule_key |-> rdef.rule_key, date |-> next_day,
                          misses_in_window |-> st0.misses + 1,
                          buffer_misses |-> rdef.buffer_misses,
                          window_days |-> rdef.window_days,
                          rule_version |-> rdef.version]
                    ELSE acc.end_reason,
     entering |-> DictSet(acc.entering, rdef.rule_key, st0.misses),
     writes |-> IF state = "UNKNOWN"
                THEN Append(acc.writes,
                            force_miss_if_unknown(acc.db, next_day, rdef.rule_key, state))
                ELSE acc.writes]

\* One pass of the loop body `for rule_key, rdef in applicable_rules.items()` for the
\* picked row rdef.  acc carries the store, the local rule_state dict, the ended flag
\* and end_reason, and (for the record of the day step) the counter each evaluated
\* rule had when its log was read.
EvalRule(acc, rdef, s_start, next_day) ==
    CountDay(acc, rdef, next_day,
             EnterWindow(acc.rule_state, rdef,
                         calc_window_index(s_start, next_day, rdef.window_days)),
             get_log_state(acc.db, next_day, rdef.rule_key))

\* The picked row of key k, as a set (empty when k has no applicable row).
RowsOf(picked, k) == {r \in picked : r.rule_key = k}

\* A loop over applicable_rules that goes on after a rule has crossed its buffer.
RECURSIVE RuleLoopNoBreak(_, _, _, _, _)
RuleLoopNoBreak(acc, picked, i, s_start, next_day) ==
    IF i > Len(KeyOrder) THEN acc
    ELSE IF RowsOf(picked, KeyOrder[i]) = {}
    THEN RuleLoopNoBreak(acc, picked, i + 1, s_start, next_day)
    ELSE RuleLoopNoBreak(EvalRule(acc, CHOOSE r \in RowsOf(picked, KeyOrder[i]) : TRUE,
                                  s_start, next_day),
                         picked, i + 1, s_start, next_day)

\* The for loop over applicable_rules in rule_key order, with its break.
RECURSIVE RuleLoop(_, _, _, _, _)
RuleLoop(acc, picked, i, s_start, next_day) ==
    IF i > Len(KeyOrder) \/ acc.ended THEN acc
    ELSE IF RowsOf(picked, KeyOrder[i]) = {}
    THEN RuleLoop(acc, picked, i + 1, s_start, next_day)
    ELSE RuleLoop(EvalRule(acc, CHOOSE r \in RowsOf(picked, KeyOrder[i]) : TRUE,
                           s_start, next_day),
                  picked, i + 1, s_start, next_day)

\* A closure that leaves the rule_state of the row as it was before the day.
PersistDayStaleState(acc, sid, next_day) ==
    IF acc.ended
    THEN close_streak_and_open_next(acc.db, sid, next_day, acc.end_reason)
    ELSE [acc.db EXCEPT !.streaks[sid].processed_through_date = next_day,
                        !.streaks[sid].rule_state_json = acc.rule_state]

\* Lines 233-250: what the day step persists on row sid: the final rule_state and the
\* closure with the next row, or the advanced boundary with the rule_state.
PersistDay(acc, sid, next_day) ==
    IF acc.ended
    THEN close_streak_and_open_next(
            [acc.db EXCEPT !.streaks[sid].rule_state_json = acc.rule_state],
            sid, next_day, acc.end_reason)
    ELSE [acc.db EXCEPT !.streaks[sid].processed_through_date = next_day,
                        !.streaks[sid].rule_state_json = acc.rule_state]

\* The store after each single write of lines 233-250: the rule_state update, the
\* closing update and the insert of the next row; or the one update that advances.
DayWrites(acc, sid, next_day) ==
    IF acc.ended
    THEN <<[acc.db EXCEPT !.streaks[sid].rule_state_json = acc.rule_state],
           CloseRow([acc.db EXCEPT !.streaks[sid].rule_state_json = acc.rule_state],
                    sid, next_day, acc.end_reason),
           PersistDay(acc, sid, next_day)>>
    ELSE <<PersistDay(acc, sid, next_day)>>

\* The run after a day step: the store, the events, the record of the step and the
\* store after each write so far.
DayResult(run, sid, next_day, acc, db2) ==
    [ok |-> TRUE,
     db |-> db2,
     writes |-> acc.writes \o DayWrites(acc, sid, next_day),
     events |-> IF acc.ended
                THEN Append(run.events, [type |-> "STREAK_ENDED", reason |-> acc.end_reason])
                ELSE run.events,
     trace |-> Append(run.trace,
                [date |-> next_day, streak_id |-> sid,
                 start_date |-> run.db.streaks[sid].start_date,
                 pre |-> run.db.streaks[sid].rule_state_json,
                 entering |-> acc.entering,
                 post |-> acc.rule_state, ended |-> acc.ended,
                 after |-> db2.streaks[sid],
                 opened |-> IF acc.ended THEN db2.streaks[Len(db2.streaks)]
                            ELSE run.db.streaks[sid]])]

DayPersisted(run, sid, next_day, acc) ==
    DayResult(run, sid, next_day, acc, PersistDay(acc, sid, next_day))

\* A day step whose rule_state is the dict of the call's previous day step, read from
\* the store on the first day of the call only.
DayStepCarriesState(run, sid, next_day) ==
    DayPersisted(run, sid, next_day,
        RuleLoop([db |-> run.db,
                  rule_state |-> IF run.trace = <<>>
                                 THEN run.db.streaks[sid].rule_state_json
                                 ELSE run.trace[Len(run.trace)].post,
                  ended |-> FALSE, end_reason |-> NoReason,
                  entering |-> [k \in {} |-> 0], writes |-> run.writes],
                 load_applicable_rule_rows_for_date(run.db, next_day), 1,
                 run.db.streaks[sid].start_date, next_day))

\* One iteration of `while True` that does not break: day next_day of the OPEN
\* streak sid is evaluated and persisted.  run = [ok, db, events, trace].
DayStep(run, sid, next_day) ==
    DayPersisted(run, sid, next_day,
        RuleLoop([db |-> run.db, rule_state |-> run.db.streaks[sid].rule_state_json,
                  ended |-> FALSE, end_reason |-> NoReason,
                  entering |-> [k \in {} |-> 0], writes |-> run.writes],
                 load_applicable_rule_rows_for_date(run.db, next_day), 1,
                 run.db.streaks[sid].start_date, next_day))

\* `get_open_streak(sb) or create_open_streak(sb, app_start)`
OpenOrCreate(db) ==
    IF get_open_streak(db) # 0 THEN db ELSE create_open_streak(db, db.app_meta)

\* processed_through_date of the OPEN row, plus one day.
NextDay(db) == db.streaks[get_open_streak(db)].processed_through_date + 1

\* The `while True` loop: until next_day > max_date.
RECURSIVE AdvanceLoop(_, _)
\* A loop that stops one day short of the target.
AdvanceFromStopsEarly(run, max_date) ==
    IF NextDay(run.db) >= max_date THEN run
    ELSE AdvanceLoop(DayStep(run, get_open_streak(run.db), NextDay(run.db)), max_date)

AdvanceFrom(run, max_date) ==
    IF NextDay(run.db) > max_date THEN run
    ELSE AdvanceLoop(DayStep(run, get_open_streak(run.db), NextDay(run.db)), max_date)

AdvanceLoop(run, max_date) ==
    AdvanceFrom([run EXCEPT !.db = OpenOrCreate(@)], max_date)

\* The state of a call before its loop: no event, no day step, no write of the loop.
StartRun(db) == [ok |-> TRUE, db |-> db, writes |-> <<>>, events |-> <<>>, trace |-> <<>>]

\* A call that raised before writing anything.
Raised(db) == [ok |-> FALSE, db |-> db, writes |-> <<>>, events |-> <<>>, trace |-> <<>>]

\* The later of the target and the day after the boundary.
AtLeastNextDay(db, max_date) == IF NextDay(db) > max_date THEN NextDay(db) ELSE max_date

\* A loop that tests the target only after its body has run once.
AdvanceTestAfter(run, max_date) == AdvanceLoop(run, AtLeastNextDay(run.db, max_date))

ProcessUpToTestAfter(db, max_date, now) ==
    IF ~validate_rule_defs_no_overlaps(db) THEN Raised(db)
    ELSE AdvanceTestAfter(StartRun(OpenOrCreate(ensure_app_start_date(db, now))), max_date)

\* engine.process_up_to(sb, max_date) called when _today() = now.  ok = FALSE when
\* the validation raised (nothing written, nothing returned).
process_up_to(db, max_date, now) ==
    IF ~validate_rule_defs_no_overlaps(db) THEN Raised(db)
    ELSE AdvanceLoop(StartRun(OpenOrCreate(ensure_app_start_date(db, now))), max_date)

\* A page load that processes up to the day before yesterday.
AutoProcessUntilDayBefore(db, now) == process_up_to(db, now - 2, now)

\* engine.auto_process_until_yesterday called when _today() = now.
auto_process_until_yesterday(db, now) == process_up_to(db, now - 1, now)

\* The store after each write of lines 172-173: the app_meta insert when the row is
\* absent, the streak insert when no row is OPEN.
StartWrites(db, now) ==
    (IF db.app_meta = NULL THEN <<ensure_app_start_date(db, now)>> ELSE <<>>)
    \o (IF get_open_streak(db) = 0
        THEN <<OpenOrCreate(ensure_app_start_date(db, now))>> ELSE <<>>)

\* The store after each persistence write of process_up_to(sb, max_date), in the
\* order the writes are made.
process_up_to_writes(db, max_date, now) ==
    IF ~validate_rule_defs_no_overlaps(db) THEN <<>>
    ELSE StartWrites(db, now) \o process_up_to(db, max_date, now).writes

\* A reset that closes whatever streak is OPEN.
ResetAlways(res, now) ==
    IF ~res.ok THEN [ok |-> FALSE, reset |-> FALSE, db |-> res.db,
                     events |-> <<>>, trace |-> <<>>]
    ELSE IF get_open_streak(res.db) = 0
    THEN [ok |-> TRUE, reset |-> FALSE, db |-> res.db,
          events |-> res.events, trace |-> res.trace]
    ELSE [ok |-> TRUE, reset |-> TRUE,
          db |-> close_streak_and_open_next(res.db, get_open_streak(res.db), now,
                    [NoReason EXCEPT !.type = "MANUAL_RESET", !.date = now]),
          events |-> res.events, trace |-> res.trace]

\* Lines 304-315 of reset_streak_today, res being what process_up_to returned.
ResetAfter(res, now) ==
    IF ~res.ok THEN [ok |-> FALSE, reset |-> FALSE, db |-> res.db,
                     events |-> <<>>, trace |-> <<>>]
    ELSE IF get_open_streak(res.db) = 0
    THEN [ok |-> TRUE, reset |-> FALSE, db |-> res.db,
          events |-> res.events, trace |-> res.trace]
    ELSE IF res.db.streaks[get_open_streak(res.db)].start_date = now + 1
    THEN [ok |-> TRUE, reset |-> FALSE, db |-> res.db,
          events |-> res.events, trace |-> res.trace]
    ELSE [ok |-> TRUE, reset |-> TRUE,
          db |-> close_streak_and_open_next(res.db, get_open_streak(res.db), now,
                    [NoReason EXCEPT !.type = "MANUAL_RESET", !.date = now]),
          events |-> res.events, trace |-> res.trace]

\* engine.reset_streak_today called when _today() = now.
reset_streak_today(db, now) == ResetAfter(process_up_to(db, now, now), now)

\* ------------------------------------------ engine.compute_discipline_index
\* A fraction kept exact: the floats of the code without their rounding.
Frac(n, d) == [num |-> n, den |-> d]

FracAdd(x, y) == Frac(x.num * y.den + y.num * x.den, x.den * y.den)

\* sum(daily_scores)
RECURSIVE FracSum(_, _)
FracSum(scores, i) ==
    IF i > Len(scores) THEN Frac(0, 1) ELSE FracAdd(scores[i], FracSum(scores, i + 1))

\* Line 392: sum(daily_scores) / len(daily_scores), 0.0 for an empty list.
MeanOfScores(daily_scores) ==
    IF daily_scores = <<>> THEN Frac(0, 1)
    ELSE Frac(FracSum(daily_scores, 1).num, FracSum(daily_scores, 1).den * Len(daily_scores))

\* ORDER BY effective_from ASC.
FirstByFrom(rows) == CHOOSE x \in rows : \A y \in rows : x.effective_from <= y.effective_from

RECURSIVE SortedByFrom(_)
SortedByFrom(rows) ==
    IF rows = {} THEN <<>>
    ELSE <<FirstByFrom(rows)>> \o SortedByFrom(rows \ {FirstByFrom(rows)})

\* Lines 333-350: versions[k], the rows of k with effective_from <= end_date in
\* effective_from order, for every key that has such a row.
VersionLists(db, end_date) ==
    [k \in {r.rule_key : r \in {x \in db.rule_defs : x.effective_from <= end_date}} |->
        SortedByFrom({r \in db.rule_defs :
                        r.rule_key = k /\ r.effective_from <= end_date})]

\* A cursor that moves on by one version a day at most.
AdvanceCursorOnce(vlist, i, d) ==
    IF i + 1 <= Len(vlist) /\ vlist[i + 1].effective_from <= d THEN i + 1 ELSE i

\* Lines 371-374: the cursor moves on while the next version has started by d.
RECURSIVE AdvanceCursor(_, _, _)
AdvanceCursor(vlist, i, d) ==
    IF i + 1 <= Len(vlist) /\ vlist[i + 1].effective_from <= d
    THEN AdvanceCursor(vlist, i + 1, d)
    ELSE i

\* Lines 376-380: the version under the cursor counts on d.
CursorApplies(v, d) ==
    IF v.effective_from > d THEN FALSE
    ELSE IF v.effective_to # NULL /\ d > v.effective_to THEN FALSE
    ELSE TRUE

\* A weight earned by every state but MISS.
PassWeightUnlessMiss(db, d, k, w) == IF get_log_state(db, d, k) # "MISS" THEN w ELSE 0

\* Lines 383-385: the weight earned on d, the state defaulting to UNKNOWN.
PassWeight(db, d, k, w) == IF get_log_state(db, d, k) = "PASS" THEN w ELSE 0

RECURSIVE SumOver(_, _)
SumOver(f, S) ==
    IF S = {} THEN 0
    ELSE f[CHOOSE x \in S : TRUE] + SumOver(f, S \ {CHOOSE x \in S : TRUE})

\* denom and numer of day d, idx being the cursors already moved to d.
DayDenom(versions, idx, d) ==
    SumOver([k \in DOMAIN idx |->
                IF CursorApplies(versions[k][idx[k]], d)
                THEN versions[k][idx[k]].weight ELSE 0], DOMAIN idx)

DayNumer(db, versions, idx, d) ==
    SumOver([k \in DOMAIN idx |->
                IF CursorApplies(versions[k][idx[k]], d)
                THEN PassWeight(db, d, k, versions[k][idx[k]].weight) ELSE 0], DOMAIN idx)

\* A list that takes a score for every day, 0 for a day without weight.
AppendScoreAlways(daily_scores, numer, denom) ==
    IF denom > 0 THEN Append(daily_scores, Frac(numer, denom))
    ELSE Append(daily_scores, Frac(0, 1))

\* Lines 387-388: `if denom > 0: daily_scores.append(numer / denom)`
AppendScore(daily_scores, numer, denom) ==
    IF denom > 0 THEN Append(daily_scores, Frac(numer, denom)) ELSE daily_scores

\* Lines 366-390: `while d <= end_date`, the cursors idx kept from day to day.
RECURSIVE ScoreLoop(_, _, _, _, _, _)
ScoreDay(db, versions, idx, d, end_date, daily_scores) ==
    ScoreLoop(db, versions, idx, d + 1, end_date,
              AppendScore(daily_scores, DayNumer(db, versions, idx, d),
                          DayDenom(versions, idx, d)))

ScoreLoop(db, versions, idx, d, end_date, daily_scores) ==
    IF d > end_date THEN daily_scores
    ELSE ScoreDay(db, versions,
                  [k \in DOMAIN idx |-> AdvanceCursor(versions[k], idx[k], d)],
                  d, end_date, daily_scores)

\* A range that always reaches window_days back.
RangeStartUnclamped(app_start, end_date, window_days) == end_date - (window_days - 1)

\* Line 328: max(app_start, end_date - (window_days - 1))
RangeStart(app_start, end_date, window_days) ==
    IF app_start >= end_date - (window_days - 1) THEN app_start
    ELSE end_date - (window_days - 1)

\* Line 393 (and 330): the returned dict, and the store as the call leaves it.
DIResult(db, start_date, end_date, daily_scores) ==
    [ok |-> TRUE, db |-> db, di |-> MeanOfScores(daily_scores),
     days |-> Len(daily_scores), start_date |-> start_date, end_date |-> end_date]

\* Lines 329-393, db having its app_meta row.
DIOverRange(db, start_date, end_date) ==
    IF start_date > end_date THEN DIResult(db, start_date, end_date, <<>>)
    ELSE DIResult(db, start_date, end_date,
                  ScoreLoop(db, VersionLists(db, end_date),
                            [k \in DOMAIN VersionLists(db, end_date) |-> 1],
                            start_date, end_date, <<>>))

DIFrom(db, end_date, window_days) ==
    DIOverRange(db, RangeStart(db.app_meta, end_date, window_days), end_date)

\* engine.compute_discipline_index(sb, end_date, window_days) called when
\* _today() = now.  get_app_start_date inserts the app_meta row when it is absent.
compute_discipline_index(db, end_date, window_days, now) ==
    IF ~validate_rule_defs_no_overlaps(db)
    THEN [ok |-> FALSE, db |-> db, di |-> Frac(0, 1), days |-> 0,
          start_date |-> NULL, end_date |-> end_date]
    ELSE DIFrom(ensure_app_start_date(db, now), end_date, window_days)

\* Lines 408-410 of compute_di_timeseries: the validation and get_app_start_date; the
\* rest of the function only reads.
compute_di_timeseries_entry(db, now) ==
    IF ~validate_rule_defs_no_overlaps(db) THEN [ok |-> FALSE, db |-> db]
    ELSE [ok |-> TRUE, db |-> ensure_app_start_date(db, now)]

\* Lines 520-522 of compute_statistics: the validation and get_app_start_date; the
\* rest of the function only reads.
compute_statistics_entry(db, now) ==
    IF ~validate_rule_defs_no_overlaps(db) THEN [ok |-> FALSE, db |-> db]
    ELSE [ok |-> TRUE, db |-> ensure_app_start_date(db, now)]

\* ------------------------------------------------ engine.compute_di_timeseries
MaxOf(x, y) == IF x >= y THEN x ELSE y

FracSub(x, y) == Frac(x.num * y.den - y.num * x.den, x.den * y.den)

\* Line 476: di1 = (numer / denom) if denom > 0 else 0.0
Di1(numer, denom) == IF denom > 0 THEN Frac(numer, denom) ELSE Frac(0, 1)

\* Lines 453-479: a di1 for every day of [internal_start..end_date].
RECURSIVE Di1Loop(_, _, _, _, _, _)
Di1Day(db, versions, idx, d, end_date, di1_vals) ==
    Di1Loop(db, versions, idx, d + 1, end_date,
            Append(di1_vals, Di1(DayNumer(db, versions, idx, d),
                                 DayDenom(versions, idx, d))))

Di1Loop(db, versions, idx, d, end_date, di1_vals) ==
    IF d > end_date THEN di1_vals
    ELSE Di1Day(db, versions,
                [k \in DOMAIN idx |-> AdvanceCursor(versions[k], idx[k], d)],
                d, end_date, di1_vals)

\* Line 477: the dates appended by the loop.
DatesOf(internal_start, end_date) ==
    [i \in 1..(end_date - internal_start + 1) |-> internal_start + (i - 1)]

\* Line 481: pos = {dates[i]: i}, i counted from 0.
PosOf(dates) ==
    [d \in {dates[i] : i \in DOMAIN dates} |-> (CHOOSE i \in DOMAIN dates : dates[i] = d) - 1]

\* Lines 482-484: prefix = [0.0], then prefix[-1] + v for every v.
PrefixNext(prefix, v) == Append(prefix, FracAdd(prefix[Len(prefix)], v))

RECURSIVE PrefixOf(_, _)
PrefixOf(di1_vals, n) ==
    IF n = 0 THEN <<Frac(0, 1)>>
    ELSE PrefixNext(PrefixOf(di1_vals, n - 1), di1_vals[n])

\* Lines 488-490 of _avg_for_day with i0 = pos[start], i1 = pos[day]; prefix is a list
\* counted from 0 in the code and from 1 here.
AvgBetween(prefix, i0, i1) ==
    Frac(FracSub(prefix[i1 + 2], prefix[i0 + 1]).num,
         FracSub(prefix[i1 + 2], prefix[i0 + 1]).den * (i1 - i0 + 1))

\* _avg_for_day from line 487 on: pos[start] or pos[day] raises KeyError for a date
\* outside dates.
AvgFrom(pos, prefix, start, day) ==
    IF start \notin DOMAIN pos \/ day \notin DOMAIN pos
    THEN [found |-> FALSE, avg |-> Frac(0, 1)]
    ELSE [found |-> TRUE, avg |-> AvgBetween(prefix, pos[start], pos[day])]

\* Line 486: start = max(app_start, day - (wdays - 1))
avg_for_day(pos, prefix, app_start, day, wdays) ==
    AvgFrom(pos, prefix, MaxOf(app_start, day - (wdays - 1)), day)

\* Lines 495-503: the row of day d.
SeriesRow(pos, prefix, di1_vals, app_start, d, windows) ==
    [date |-> d,
     found |-> /\ d \in DOMAIN pos
               /\ avg_for_day(pos, prefix, app_start, d, windows[1]).found
               /\ avg_for_day(pos, prefix, app_start, d, windows[2]).found,
     di1 |-> IF d \in DOMAIN pos THEN di1_vals[pos[d] + 1] ELSE Frac(0, 1),
     di |-> <<avg_for_day(pos, prefix, app_start, d, windows[1]).avg,
              avg_for_day(pos, prefix, app_start, d, windows[2]).avg>>]

\* Lines 492-504: the rows of [plot_start..end_date].
SeriesRows(pos, prefix, di1_vals, app_start, plot_start, end_date, windows) ==
    [i \in 1..(end_date - plot_start + 1) |->
        SeriesRow(pos, prefix, di1_vals, app_start, plot_start + (i - 1), windows)]

\* Line 506: the returned dict; a KeyError of a lookup leaves the call without one.
SeriesResult(db, rows, plot_start, end_date) ==
    [ok |-> \A i \in DOMAIN rows : rows[i].found, db |-> db,
     rows |-> rows, plot_start |-> plot_start, end_date |-> end_date]

\* Lines 481-506.
SeriesOver(db, di1_vals, internal_start, plot_start, end_date, windows) ==
    SeriesResult(db,
                 SeriesRows(PosOf(DatesOf(internal_start, end_date)),
                            PrefixOf(di1_vals, Len(di1_vals)), di1_vals,
                            db.app_meta, plot_start, end_date, windows),
                 plot_start, end_date)

\* Lines 418-479.
SeriesInternal(db, internal_start, plot_start, end_date, windows) ==
    SeriesOver(db,
               Di1Loop(db, VersionLists(db, end_date),
                       [k \in DOMAIN VersionLists(db, end_date) |-> 1],
                       internal_start, end_date, <<>>),
               internal_start, plot_start, end_date, windows)

\* A range that reaches back by the first window only.
FirstWindow(windows) == windows[1]

\* Line 415: max_w = max(windows)
MaxW(windows) == MaxOf(windows[1], windows[2])

\* Lines 414-416: plot_start, then internal_start.
SeriesPlot(db, plot_start, end_date, windows) ==
    SeriesInternal(db, MaxOf(db.app_meta, plot_start - (MaxW(windows) - 1)),
                   plot_start, end_date, windows)

\* Lines 410-416, db having its app_meta row.
SeriesFrom(db, end_date, plot_days, windows) ==
    IF end_date < db.app_meta
    THEN [ok |-> TRUE, db |-> db, rows |-> <<>>, plot_start |-> db.app_meta,
          end_date |-> end_date]
    ELSE SeriesPlot(db, MaxOf(db.app_meta, end_date - (plot_days - 1)), end_date, windows)

\* engine.compute_di_timeseries(sb, end_date, plot_days, windows) when _today() = now.
compute_di_timeseries(db, end_date, plot_days, windows, now) ==
    IF ~validate_rule_defs_no_overlaps(db)
    THEN [ok |-> FALSE, db |-> db, rows |-> <<>>, plot_start |-> NULL,
          end_date |-> end_date]
    ELSE SeriesFrom(ensure_app_start_date(db, now), end_date, plot_days, windows)

\* ---------------------------------------------------- engine.compute_statistics
RECURSIVE SumSeq(_)
SumSeq(xs) == IF xs = <<>> THEN 0 ELSE Head(xs) + SumSeq(Tail(xs))

RECURSIVE SumSquares(_)
SumSquares(xs) == IF xs = <<>> THEN 0 ELSE Head(xs) * Head(xs) + SumSquares(Tail(xs))

RECURSIVE MinSeq(_)
MinSeq(xs) ==
    IF Len(xs) = 1 THEN xs[1]
    ELSE IF Head(xs) <= MinSeq(Tail(xs)) THEN Head(xs) ELSE MinSeq(Tail(xs))

RECURSIVE MaxSeq(_)
MaxSeq(xs) ==
    IF Len(xs) = 1 THEN xs[1]
    ELSE IF Head(xs) >= MaxSeq(Tail(xs)) THEN Head(xs) ELSE MaxSeq(Tail(xs))

\* sorted(xs), as statistics.median sorts its data.
RECURSIVE InsertAscending(_, _)
InsertAscending(sorted, x) ==
    IF sorted = <<>> THEN <<x>>
    ELSE IF x < Head(sorted) THEN <<x>> \o sorted
    ELSE <<Head(sorted)>> \o InsertAscending(Tail(sorted), x)

RECURSIVE SortedSeq(_)
SortedSeq(xs) ==
    IF xs = <<>> THEN <<>> ELSE InsertAscending(SortedSeq(Tail(xs)), Head(xs))

\* Line 532: _mean
MeanOf(xs) == IF xs = <<>> THEN Frac(0, 1) ELSE Frac(SumSeq(xs), Len(xs))

MiddleOf(sorted, n) ==
    IF n % 2 = 1 THEN Frac(sorted[(n + 1) \div 2], 1)
    ELSE Frac(sorted[n \div 2] + sorted[n \div 2 + 1], 2)

\* Line 533: _median
MedianOf(xs) == IF xs = <<>> THEN Frac(0, 1) ELSE MiddleOf(SortedSeq(xs), Len(xs))

\* Line 534: _stdev, kept as its square, the sample variance; 0 under two samples.
VarianceOf(xs) ==
    IF Len(xs) < 2 THEN Frac(0, 1)
    ELSE Frac(Len(xs) * SumSquares(xs) - SumSeq(xs) * SumSeq(xs), Len(xs) * (Len(xs) - 1))

\* Line 548: the end of a streak row, end_date when it has one.
StreakEnd(r) == IF r.end_date # NULL THEN r.end_date ELSE r.processed_through_date

\* Line 549: l = (e - s).days + 1 if e >= s else 0
StreakLength(r) ==
    IF StreakEnd(r) >= r.start_date THEN StreakEnd(r) - r.start_date + 1 ELSE 0

\* Lines 545-550: one length per streak row, in streak_id order.
LengthsOf(streaks_rows) == [i \in DOMAIN streaks_rows |-> StreakLength(streaks_rows[i])]

\* Lines 523-525: the global block of the early return.
NoGlobalStats ==
    [count |-> 0, mean |-> Frac(0, 1), median |-> Frac(0, 1), variance |-> Frac(0, 1),
     min |-> 0, max |-> 0]

\* Lines 552-559: global_stats.
GlobalStats(lengths) ==
    [count |-> Len(lengths), mean |-> MeanOf(lengths), median |-> MedianOf(lengths),
     variance |-> VarianceOf(lengths),
     min |-> IF lengths = <<>> THEN 0 ELSE MinSeq(lengths),
     max |-> IF lengths = <<>> THEN 0 ELSE MaxSeq(lengths)]

\* versions.items(): the keys in ORDER BY rule_key.
RECURSIVE KeysInOrder(_, _)
KeysInOrder(versions, i) ==
    IF i > Len(KeyOrder) THEN <<>>
    ELSE IF KeyOrder[i] \in DOMAIN versions
    THEN <<KeyOrder[i]>> \o KeysInOrder(versions, i + 1)
    ELSE KeysInOrder(versions, i + 1)

\* Lines 613-615: one more applicable day, passed or not.
CountApplicable(db, k, d, acc) ==
    [applicable |-> acc.applicable + 1,
     passed |-> acc.passed + (IF get_log_state(db, d, k) = "PASS" THEN 1 ELSE 0)]

\* Lines 603-616: `while d <= end_date` of the consistency block for one key.
RECURSIVE ConsLoop(_, _, _, _, _, _, _)
ConsDay(db, k, vlist, i, d, end_date, acc) ==
    ConsLoop(db, k, vlist, i, d + 1, end_date,
             IF CursorApplies(vlist[i], d) THEN CountApplicable(db, k, d, acc) ELSE acc)

ConsLoop(db, k, vlist, i, d, end_date, acc) ==
    IF d > end_date THEN acc
    ELSE ConsDay(db, k, vlist, AdvanceCursor(vlist, i, d), d, end_date, acc)

\* Lines 618-627: rate = (passed / applicable) if applicable else None.
ConsistencyRow(k, acc) ==
    [rule_key |-> k, applicable_days |-> acc.applicable, pass_days |-> acc.passed,
     rated |-> acc.applicable # 0,
     pass_rate |-> IF acc.applicable # 0 THEN Frac(acc.passed, acc.applicable)
                   ELSE Frac(0, 1)]

\* Lines 593-627: the consistency list.
ConsistencyOf(db, versions, keys, cons_start, end_date) ==
    [n \in DOMAIN keys |->
        ConsistencyRow(keys[n],
                       ConsLoop(db, keys[n], versions[keys[n]], 1, cons_start, end_date,
                                [applicable |-> 0, passed |-> 0]))]

\* Lines 655-658: a day that is not a PASS ends the run in progress.
RunBroken(acc) ==
    [runs |-> IF acc.cur > 0 THEN Append(acc.runs, acc.cur) ELSE acc.runs,
     cur |-> 0, applicable_seen |-> acc.applicable_seen + 1]

\* Lines 650-658: an applicable day.
RunDay(db, k, d, acc) ==
    IF get_log_state(db, d, k) = "PASS"
    THEN [acc EXCEPT !.cur = @ + 1, !.applicable_seen = @ + 1]
    ELSE RunBroken(acc)

\* Lines 640-660: `while d <= end_date` of the PASS-run block for one key.
RECURSIVE RunsLoop(_, _, _, _, _, _, _)
\* A day on which the rule is not applicable ends the run in progress.
RunsDayGapBreaks(db, k, vlist, i, d, end_date, acc) ==
    RunsLoop(db, k, vlist, i, d + 1, end_date,
             IF CursorApplies(vlist[i], d) THEN RunDay(db, k, d, acc)
             ELSE [RunBroken(acc) EXCEPT !.applicable_seen = acc.applicable_seen])

RunsDay(db, k, vlist, i, d, end_date, acc) ==
    RunsLoop(db, k, vlist, i, d + 1, end_date,
             IF CursorApplies(vlist[i], d) THEN RunDay(db, k, d, acc) ELSE acc)

RunsLoop(db, k, vlist, i, d, end_date, acc) ==
    IF d > end_date THEN acc
    ELSE RunsDay(db, k, vlist, AdvanceCursor(vlist, i, d), d, end_date, acc)

\* Lines 663-664: the run in progress is a sample too.
RunsClosed(acc) == IF acc.cur > 0 THEN Append(acc.runs, acc.cur) ELSE acc.runs

\* Line 666: current_streak = cur if (runs and runs[-1] == cur) else 0
current_streak(runs, cur) ==
    IF runs # <<>> /\ runs[Len(runs)] = cur THEN cur ELSE 0

\* Lines 668-680: the rule_streaks row; runs is kept next to what is reported of it.
RuleStreakRow(k, runs, acc) ==
    [rule_key |-> k, runs |-> runs, current_streak |-> current_streak(runs, acc.cur),
     streak_count |-> Len(runs), mean |-> MeanOf(runs), median |-> MedianOf(runs),
     variance |-> VarianceOf(runs),
     max |-> IF runs = <<>> THEN 0 ELSE MaxSeq(runs),
     applicable_days |-> acc.applicable_seen]

RuleStreakOf(k, acc) == RuleStreakRow(k, RunsClosed(acc), acc)

\* Lines 630-680: the rule_streaks list.
RuleStreaksOf(db, versions, keys, app_start, end_date) ==
    [n \in DOMAIN keys |->
        RuleStreakOf(keys[n],
                     RunsLoop(db, keys[n], versions[keys[n]], 1, app_start, end_date,
                              [runs |-> <<>>, cur |-> 0, applicable_seen |-> 0]))]

\* Lines 532-688, db having its app_meta row and end_date >= app_start.
StatsOver(db, versions, end_date, consistency_window_days) ==
    [ok |-> TRUE, db |-> db,
     global |-> GlobalStats(LengthsOf(db.streaks)),
     consistency |-> ConsistencyOf(db, versions, KeysInOrder(versions, 1),
                                   MaxOf(db.app_meta,
                                         end_date - (consistency_window_days - 1)),
                                   end_date),
     rule_streaks |-> RuleStreaksOf(db, versions, KeysInOrder(versions, 1),
                                    db.app_meta, end_date)]

\* Lines 522-530: the early return for an end_date before app_start.
StatsFrom(db, end_date, consistency_window_days) ==
    IF end_date < db.app_meta
    THEN [ok |-> TRUE, db |-> db, global |-> NoGlobalStats, consistency |-> <<>>,
          rule_streaks |-> <<>>]
    ELSE StatsOver(db, VersionLists(db, end_date), end_date, consistency_window_days)

\* engine.compute_statistics(sb, end_date, consistency_window_days) when _today() = now.
compute_statistics(db, end_date, consistency_window_days, now) ==
    IF ~validate_rule_defs_no_overlaps(db)
    THEN [ok |-> FALSE, db |-> db, global |-> NoGlobalStats, consistency |-> <<>>,
          rule_streaks |-> <<>>]
    ELSE StatsFrom(ensure_app_start_date(db, now), end_date, consistency_window_days)

\* --------------------------------------------- engine.py: rule management
\* engine._assert_no_scheduled_beyond_tomorrow: TRUE when it returns, FALSE when it
\* raises.
assert_no_scheduled_beyond_tomorrow(db, rule_key, now) ==
    ~\E r \in db.rule_defs : r.rule_key = rule_key /\ r.effective_from > now + 1

\* A look at the day before the one asked for.
HasVersionOnDayBefore(db, rule_key, d) ==
    \E r \in db.rule_defs : r.rule_key = rule_key /\ r.effective_from = d - 1

\* engine._has_version_on_date
has_version_on_date(db, rule_key, d) ==
    \E r \in db.rule_defs : r.rule_key = rule_key /\ r.effective_from = d

\* engine._has_any_version_from_date
has_any_version_from_date(db, rule_key, d) ==
    \E r \in db.rule_defs : r.rule_key = rule_key /\ r.effective_from >= d

\* engine.admin_get_max_version
admin_get_max_version(db, rule_key) ==
    IF {r \in db.rule_defs : r.rule_key = rule_key} = {} THEN 0
    ELSE (CHOOSE r \in db.rule_defs :
            /\ r.rule_key = rule_key
            /\ \A x \in db.rule_defs : x.rule_key = rule_key => x.version <= r.version).version

\* The rows of rule_key that apply on d.
RowsApplying(db, rule_key, d) ==
    {r \in db.rule_defs :
        r.rule_key = rule_key /\ r.effective_from <= d /\ row_applies_on(r, d)}

\* engine.admin_get_version_applicable_on: by effective_from descending the first row
\* that applies on d, as a set; the empty set for None.
admin_get_version_applicable_on(db, rule_key, d) ==
    IF RowsApplying(db, rule_key, d) = {} THEN {}
    ELSE {CHOOSE r \in RowsApplying(db, rule_key, d) :
            \A x \in RowsApplying(db, rule_key, d) : x.effective_from <= r.effective_from}

\* The row a rule-management call inserts.
NewVersionRow(rule_key, version, from, params) ==
    [rule_key |-> rule_key, version |-> version, effective_from |-> from,
     effective_to |-> NULL, window_days |-> params[1], buffer_misses |-> params[2],
     weight |-> params[3]]

\* A rule-management call that raised, and one that returned.
Rejected(db) == [ok |-> FALSE, db |-> db]
Accepted(db) == [ok |-> TRUE, db |-> db]

\* engine.admin_add_new_rule called when _today() = now; params is
\* <<window_days, buffer_misses, weight>>.
admin_add_new_rule(db, rule_key, params, now) ==
    IF \E r \in db.rule_defs : r.rule_key = rule_key THEN Rejected(db)
    ELSE Accepted([db EXCEPT !.rule_defs =
                        @ \cup {NewVersionRow(rule_key, 1, now + 1, params)}])

\* The update on (rule_key, version) with the versions in cur.
EndVersions(db, rule_key, cur, end) ==
    [db EXCEPT !.rule_defs =
        {IF r.rule_key = rule_key /\ r.version \in {c.version : c \in cur}
         THEN [r EXCEPT !.effective_to = end] ELSE r : r \in @}]

\* A current version left as it is.
KeepCurrentVersion(db, rule_key, now) == db

\* A current version ended the day before.
CloseCurrentYesterday(db, rule_key, now) ==
    EndVersions(db, rule_key, admin_get_version_applicable_on(db, rule_key, now), now - 1)

\* Lines 843-847 and 879-885: the version that applies today ends today.
CloseCurrentVersion(db, rule_key, now) ==
    EndVersions(db, rule_key, admin_get_version_applicable_on(db, rule_key, now), now)

\* Lines 849-863: the insert of version max+1, effective tomorrow.
InsertNextVersion(db, rule_key, params, now) ==
    [db EXCEPT !.rule_defs =
        @ \cup {NewVersionRow(rule_key, admin_get_max_version(db, rule_key) + 1,
                              now + 1, params)}]

\* engine.admin_add_new_version called when _today() = now.
admin_add_new_version(db, rule_key, params, now) ==
    IF ~\E r \in db.rule_defs : r.rule_key = rule_key THEN Rejected(db)
    ELSE IF ~assert_no_scheduled_beyond_tomorrow(db, rule_key, now) THEN Rejected(db)
    ELSE IF has_version_on_date(db, rule_key, now + 1) THEN Rejected(db)
    ELSE Accepted(InsertNextVersion(CloseCurrentVersion(db, rule_key, now),
                                    rule_key, params, now))

\* engine.admin_deactivate_rule_key called when _today() = now.
admin_deactivate_rule_key(db, rule_key, now) ==
    IF ~assert_no_scheduled_beyond_tomorrow(db, rule_key, now) THEN Rejected(db)
    ELSE IF has_any_version_from_date(db, rule_key, now + 1) THEN Rejected(db)
    ELSE IF admin_get_version_applicable_on(db, rule_key, now) = {} THEN Rejected(db)
    ELSE Accepted(CloseCurrentVersion(db, rule_key, now))

\* ------------------------------------------------------------- app.py
\* app.load_latest_rules_for_date / load_active_rules_for_date: the keys shown in the
\* form of day d.
ActiveKeys(db, d) == {r.rule_key : r \in load_applicable_rule_rows_for_date(db, d)}

\* The rows the payload of upsert_logs_for_date replaces, and the payload.
UpsertAll(logs, d, states) ==
    {l \in logs : ~(l.log_date = d /\ l.rule_key \in DOMAIN states)}
        \cup {[log_date |-> d, rule_key |-> k,
               state |-> IF states[k] THEN "PASS" ELSE "UNKNOWN"] : k \in DOMAIN states}

\* A guard that lets the last finalized day through.
IsFinalizedStrict(d, processed_through_db) == d < processed_through_db

\* The finalized-day guard of upsert_logs_for_date.
IsFinalized(d, processed_through_db) == d <= processed_through_db

\* Lines 105-122 of upsert_logs_for_date, db having its OPEN streak.
UpsertUnlessFinalized(db, d, states) ==
    IF IsFinalized(d, NextDay(db) - 1) THEN [ret |-> FALSE, db |-> db]
    ELSE [ret |-> TRUE, db |-> [db EXCEPT !.rule_logs = UpsertAll(@, d, states)]]

\* app.upsert_logs_for_date(sb_client, d, states) called when _today() = now;
\* ret is the returned bool.
upsert_logs_for_date(db, d, states, now) ==
    UpsertUnlessFinalized(OpenOrCreate(ensure_app_start_date(db, now)), d, states)

\* Line 553: cons[cons["pass_rate"].notna()]
RatedRows(cons) == SelectSeq(cons, LAMBDA r : r.rated)

FracLess(x, y) == x.num * y.den < y.num * x.den

\* The order of sort_values(["pass_rate", "applicable_days"], ascending=[ascending, False]).
RankedBefore(x, y, ascending) ==
    IF FracLess(x.pass_rate, y.pass_rate) THEN ascending
    ELSE IF FracLess(y.pass_rate, x.pass_rate) THEN ~ascending
    ELSE x.applicable_days > y.applicable_days

\* The place of x among rows already sorted: before the first row it is ranked before,
\* so that rows equal in both columns keep the order they came in.
RECURSIVE InsertRanked(_, _, _)
InsertRanked(sorted, x, ascending) ==
    IF sorted = <<>> THEN <<x>>
    ELSE IF RankedBefore(x, Head(sorted), ascending) THEN <<x>> \o sorted
    ELSE <<Head(sorted)>> \o InsertRanked(Tail(sorted), x, ascending)

RECURSIVE SortValues(_, _, _)
SortValues(rows, n, ascending) ==
    IF n = 0 THEN <<>>
    ELSE InsertRanked(SortValues(rows, n - 1, ascending), rows[n], ascending)

\* Line 558: cons.head(3)
Top3(sorted) == SubSeq(sorted, 1, IF Len(sorted) < 3 THEN Len(sorted) ELSE 3)

\* Line 559: cons.tail(3).sort_values(["pass_rate", "applicable_days"], ascending=[True, False])
Bot3(sorted) ==
    SortValues(SubSeq(sorted, IF Len(sorted) > 3 THEN Len(sorted) - 2 ELSE 1, Len(sorted)),
               IF Len(sorted) > 3 THEN 3 ELSE Len(sorted), TRUE)

\* Lines 556-561, cons being the rated rows sorted by falling rate.
RankingOf(sorted) == [top3 |-> Top3(sorted), bot3 |-> Bot3(sorted)]

\* Lines 549-561 of tab_stats: the two lists of the consistency ranking.
consistency_ranking(consistency) ==
    RankingOf(SortValues(RatedRows(consistency), Len(RatedRows(consistency)), FALSE))

\* ------------------------------------------------------------ the catalogs
Version(k, v, from, to, w, b) ==
    [rule_key |-> k, version |-> v, effective_from |-> from, effective_to |-> to,
     window_days |-> w, buffer_misses |-> b, weight |-> 1]

\* A version row (window_days=2, buffer_misses=1) of the given weight.
Weighted(k, v, from, to, weight) == [Version(k, v, from, to, 2, 1) EXCEPT !.weight = weight]

\* Rule a with one open-ended version: <<window_days, buffer_misses>>.
SingleChoices == {<<2, 1>>, <<2, 0>>}

\* Rule a with a second version taking over: <<window_days, buffer_misses>> of the
\* first and of the second version.
ChangeChoices == {<<1, 1, 2, 1>>, <<1, 1, 3, 1>>, <<2, 1, 2, 0>>, <<3, 1, 2, 1>>}

\* The days on which the second version takes over.
ChangeDays == {2, 3}

CatalogsA ==
    {{Version("a", 1, 1, NULL, p[1], p[2])} : p \in SingleChoices}
    \cup
    {{Version("a", 1, 1, c - 1, p[1], p[2]), Version("a", 2, c, NULL, p[3], p[4])} :
        c \in ChangeDays, p \in ChangeChoices}

\* Rule a not applicable on day 2: version 1 ends on day 1, version 2 starts on day 3.
GapCatalog == {Version("a", 1, 1, 1, 2, 1), Version("a", 2, 3, NULL, 2, 1)}

\* Two rules applicable on every day, neither with any buffer.
TwoRuleCatalog == {Version("a", 1, 1, NULL, 2, 0), Version("b", 1, 1, NULL, 2, 0)}

\* A catalog the validation rejects: two open-ended versions of a.
OverlappingCatalog == {Version("a", 1, 1, NULL, 2, 1), Version("a", 2, 2, NULL, 2, 1)}

Catalogs == CatalogsA \cup {GapCatalog, TwoRuleCatalog, OverlappingCatalog}

\* The catalog of the 7-day-window scenario: one rule, applicable on every day.
CatalogW7 == {Version("a", 1, 1, NULL, 7, 1)}

\* ------------------------------------------------------------- the actions
NoCall == [op |-> "none", arg |-> NULL, ok |-> TRUE, ret |-> FALSE, P |-> NULL]

\* processed_through_date of the OPEN streak before a call; app_start - 1 when no
\* streak exists yet (app_start being today when app_meta is absent too).
BoundaryBefore ==
    IF get_open_streak(Store) # 0
    THEN streaks[get_open_streak(Store)].processed_through_date
    ELSE (IF app_meta # NULL THEN app_meta ELSE today) - 1

InitStore ==
    /\ today = 1
    /\ app_meta = NULL
    /\ streaks = <<>>
    /\ rule_logs = {}
    /\ last = NoCall
    /\ events = <<>>
    /\ trace = <<>>
    /\ calls = [p \in Procs |-> IdleCall]

Init == InitStore /\ horizon = MaxDay /\ rule_defs \in Catalogs

InitW7 == InitStore /\ horizon = MaxDayW7 /\ rule_defs = CatalogW7

WriteStore(db) ==
    /\ app_meta' = db.app_meta
    /\ streaks' = db.streaks
    /\ rule_logs' = db.rule_logs
    /\ rule_defs' = db.rule_defs

\* Midnight passes; no call is in progress and the last call's results are gone.
Tick ==
    /\ today < horizon
    /\ today' = today + 1
    /\ last' = NoCall
    /\ events' = <<>>
    /\ trace' = <<>>
    /\ UNCHANGED <<horizon, app_meta, streaks, rule_logs, rule_defs, calls>>

\* A process_up_to / reset_streak_today call returns res.
Returned(res, op, arg, ret, boundary) ==
    /\ WriteStore(res.db)
    /\ events' = res.events
    /\ trace' = res.trace
    /\ last' = [op |-> op, arg |-> arg, ok |-> res.ok, ret |-> ret, P |-> boundary]
    /\ UNCHANGED <<today, horizon, calls>>

\* An upsert_logs_for_date call returns up.
Saved(up, arg, boundary) ==
    /\ WriteStore(up.db)
    /\ events' = <<>>
    /\ trace' = <<>>
    /\ last' = [op |-> "upsert_logs_for_date", arg |-> arg, ok |-> TRUE,
                ret |-> up.ret, P |-> boundary]
    /\ UNCHANGED <<today, horizon, calls>>

ProcessCall(max_date) ==
    Returned(process_up_to(Store, max_date, today), "process_up_to", max_date, FALSE,
             BoundaryBefore)

\* engine.auto_process_until_yesterday (every page load of app.py).
AutoProcessUntilYesterday == ProcessCall(today - 1)

\* engine.finalize_today.
FinalizeToday == ProcessCall(today)

ResetReturned(res) ==
    Returned(res, "reset_streak_today", today, res.reset, BoundaryBefore)

\* engine.reset_streak_today.
ResetStreakToday == ResetReturned(reset_streak_today(Store, today))

\* app.py `if save_pressed:` with the toggles of today's form.
SavePressed ==
    \E ui_states \in [ActiveKeys(Store, today) -> BOOLEAN] :
        Saved(upsert_logs_for_date(Store, today, ui_states, today), today, BoundaryBefore)

\* Lines 370-374: finalize_today when the save was taken, the warning otherwise.
FinalizeIfSaved(up) ==
    IF up.ret
    THEN Returned(process_up_to(up.db, today, today), "process_up_to", today, FALSE,
                  NextDay(up.db) - 1)
    ELSE Saved(up, today, BoundaryBefore)

\* app.py `if finalize_pressed:`: save, then finalize_today when the save was taken.
FinalizePressed ==
    \E ui_states \in [ActiveKeys(Store, today) -> BOOLEAN] :
        FinalizeIfSaved(upsert_logs_for_date(Store, today, ui_states, today))

Next ==
    \/ Tick
    \/ AutoProcessUntilYesterday
    \/ FinalizeToday
    \/ ResetStreakToday
    \/ SavePressed
    \/ FinalizePressed

Spec == Init /\ [][Next]_vars

\* The 7-day-window scenario: days pass, pages load, today's form is finalized.
NextW7 ==
    \/ Tick
    \/ AutoProcessUntilYesterday
    \/ FinalizePressed

SpecW7 == InitW7 /\ [][NextW7]_vars

\* --------------------------------------------- interrupted advancement
\* The catalogs of the interruption scenario: one rule with and without a buffer, and
\* two rules.
CatalogsAbort ==
    {{Version("a", 1, 1, NULL, 2, 1)}, {Version("a", 1, 1, NULL, 2, 0)}, TwoRuleCatalog}

InitAbort == InitStore /\ horizon = MaxDay /\ rule_defs \in CatalogsAbort

\* The process dies after a write of process_up_to(max_date): the store keeps what
\* was written so far, nothing is returned.  The exploration follows one interruption
\* and the calls made on the day it happened: the horizon is drawn in to 0.
Aborted(db, max_date, boundary) ==
    /\ WriteStore(db)
    /\ events' = <<>>
    /\ trace' = <<>>
    /\ last' = [op |-> "aborted", arg |-> max_date, ok |-> FALSE, ret |-> FALSE,
                P |-> boundary]
    /\ horizon' = 0
    /\ UNCHANGED <<today, calls>>

\* process_up_to(max_date), from a page load or from finalize_today, interrupted
\* between two of its writes.
ProcessAborted ==
    /\ horizon = MaxDay
    /\ \E max_date \in {today - 1, today} :
          \E n \in 1..(Len(process_up_to_writes(Store, max_date, today)) - 1) :
              Aborted(process_up_to_writes(Store, max_date, today)[n], max_date,
                      BoundaryBefore)

NextAbort ==
    \/ Tick
    \/ AutoProcessUntilYesterday
    \/ SavePressed
    \/ FinalizePressed
    \/ ProcessAborted

SpecAbort == InitAbort /\ [][NextAbort]_vars

\* ------------------------------------------------- the discipline index
\* The longest window asked of compute_discipline_index.
MaxWindow == 3

\* Catalogs with weights: one rule; two rules of different weight; rule a with a day
\* off and a heavier second version next to rule b starting on day 2; rule a alone with
\* a day off.
CatalogsDI ==
    {{Weighted("a", 1, 1, NULL, 1)},
     {Weighted("a", 1, 1, NULL, 1), Weighted("b", 1, 1, NULL, 2)},
     {Weighted("a", 1, 1, 1, 1), Weighted("a", 2, 3, NULL, 2), Weighted("b", 1, 2, NULL, 1)},
     {Weighted("a", 1, 1, 1, 1), Weighted("a", 2, 3, NULL, 1)}}

\* A catalog the validation rejects: a version that ends before it starts.
MalformedCatalog == {Version("a", 1, 2, 1, 2, 1)}

InitDI ==
    /\ InitStore
    /\ horizon = MaxDay
    /\ rule_defs \in CatalogsDI \cup {OverlappingCatalog, MalformedCatalog}

\* A compute_* call returns res (or raises).
Computed(res, op, end_date, window_days) ==
    /\ WriteStore(res.db)
    /\ events' = <<>>
    /\ trace' = <<>>
    /\ last' = [op |-> op, arg |-> end_date, ok |-> res.ok, ret |-> FALSE, P |-> NULL,
                window_days |-> window_days, di |-> res.di, days |-> res.days,
                start_date |-> res.start_date]
    /\ UNCHANGED <<today, horizon, calls>>

Entered(res, op) ==
    /\ WriteStore(res.db)
    /\ events' = <<>>
    /\ trace' = <<>>
    /\ last' = [op |-> op, arg |-> NULL, ok |-> res.ok, ret |-> FALSE, P |-> NULL]
    /\ UNCHANGED <<today, horizon, calls>>

\* engine.compute_discipline_index for a window length and an end date: today or
\* yesterday (the boundary the page passes after its processing), or day 0, which is
\* before every app_start.
ComputeDisciplineIndex ==
    \E end_date \in {0, today - 1, today}, window_days \in 1..MaxWindow :
        Computed(compute_discipline_index(Store, end_date, window_days, today),
                 "compute_discipline_index", end_date, window_days)

\* engine.compute_di_timeseries, as far as it can write.
ComputeDiTimeseries ==
    Entered(compute_di_timeseries_entry(Store, today), "compute_di_timeseries")

\* engine.compute_statistics, as far as it can write.
ComputeStatistics ==
    Entered(compute_statistics_entry(Store, today), "compute_statistics")

NextDI ==
    \/ Tick
    \/ AutoProcessUntilYesterday
    \/ SavePressed
    \/ ComputeDisciplineIndex
    \/ ComputeDiTimeseries
    \/ ComputeStatistics

SpecDI == InitDI /\ [][NextDI]_vars

\* ------------------------------------------------- the catalog validation
\* Last day on which a span of an arbitrary catalog starts or ends.
CatalogDays == 3
\* Most versions of rule a in an arbitrary catalog.
MaxVersions == 3

\* Every span of days 1..CatalogDays, closed or open-ended, well-formed or not.
Spans == (1..CatalogDays) \X ({NULL} \cup (1..CatalogDays))

\* The row of key k with the given span; its version number is a label of the span.
SpanRow(k, span) ==
    Version(k, span[1] * (CatalogDays + 2) + span[2] + 1, span[1], span[2], 2, 1)

\* Up to MaxVersions rows of rule a with arbitrary spans, with or without a row of
\* rule b that overlaps them in time.
AnyCatalogs ==
    {{SpanRow("a", f[i]) : i \in DOMAIN f} \cup b :
        f \in UNION {[1..n -> Spans] : n \in 0..MaxVersions},
        b \in {{}, {Version("b", 1, 2, NULL, 2, 1)}}}

InitCatalog == InitStore /\ horizon = MaxDay /\ rule_defs \in AnyCatalogs

\* engine._validate_rule_defs_no_overlaps is called on the catalog.
ValidateCatalog ==
    /\ last' = [op |-> "validate_rule_defs_no_overlaps", arg |-> NULL,
                ok |-> validate_rule_defs_no_overlaps(Store), ret |-> FALSE, P |-> NULL]
    /\ UNCHANGED <<today, horizon, app_meta, streaks, rule_logs, rule_defs, events, trace,
                 calls>>

NextCatalog == ValidateCatalog

SpecCatalog == InitCatalog /\ [][NextCatalog]_vars

\* ------------------------------------------------------ rule management
\* The valid catalogs rule management starts from: none; rule a open-ended from day
\* 1, 2 or 3; rule a ending on day 1 or 2; rule a with a second version from day 2 or,
\* after a day off, from day 3; rules a and b.
CatalogsAdmin ==
    {{},
     {Version("a", 1, 1, NULL, 2, 1)},
     {Version("a", 1, 2, NULL, 2, 1)},
     {Version("a", 1, 3, NULL, 2, 1)},
     {Version("a", 1, 1, 1, 2, 1)},
     {Version("a", 1, 1, 2, 2, 1)},
     {Version("a", 1, 1, 1, 2, 1), Version("a", 2, 2, NULL, 2, 1)},
     GapCatalog,
     TwoRuleCatalog,
     {Version("a", 1, 1, 2, 2, 1), Version("b", 1, 3, NULL, 2, 1)}}

\* <<window_days, buffer_misses, weight>> entered in the forms: values no version of
\* the starting catalogs has.
ParamChoices == {<<1, 0, 2>>}

InitAdmin == InitStore /\ horizon = MaxDay /\ rule_defs \in CatalogsAdmin

\* A rule-management call on rule_key returns or raises.
Managed(res, op, rule_key) ==
    /\ WriteStore(res.db)
    /\ events' = <<>>
    /\ trace' = <<>>
    /\ last' = [op |-> op, arg |-> rule_key, ok |-> res.ok, ret |-> FALSE, P |-> NULL]
    /\ UNCHANGED <<today, horizon, calls>>

\* app.py form "Add new rule".
AdminAddNewRule ==
    \E rule_key \in Keys, params \in ParamChoices :
        Managed(admin_add_new_rule(Store, rule_key, params, today),
                "admin_add_new_rule", rule_key)

\* app.py form "Add new version".
AdminAddNewVersion ==
    \E rule_key \in Keys, params \in ParamChoices :
        Managed(admin_add_new_version(Store, rule_key, params, today),
                "admin_add_new_version", rule_key)

\* app.py form "Deactivate rule_key".
AdminDeactivateRuleKey ==
    \E rule_key \in Keys :
        Managed(admin_deactivate_rule_key(Store, rule_key, today),
                "admin_deactivate_rule_key", rule_key)

NextAdmin ==
    \/ Tick
    \/ AdminAddNewRule
    \/ AdminAddNewVersion
    \/ AdminDeactivateRuleKey

SpecAdmin == InitAdmin /\ [][NextAdmin]_vars

\* ------------------------------------------------------ weights of the form
\* Weights the "Add new rule" form lets through: number_input("weight") has no
\* min_value and admin_add_new_rule stores float(weight) unchecked.
AcceptedWeights == {-1, 2}

InitWeights == InitStore /\ horizon = MaxDay /\ rule_defs = {}

\* app.py form "Add new rule" with a weight of the form's range.
AddWeightedRule ==
    \E rule_key \in Keys, weight \in AcceptedWeights :
        Managed(admin_add_new_rule(Store, rule_key, <<1, 0, weight>>, today),
                "admin_add_new_rule", rule_key)

NextWeights ==
    \/ Tick
    \/ AddWeightedRule
    \/ SavePressed
    \/ AutoProcessUntilYesterday
    \/ ComputeDisciplineIndex

SpecWeights == InitWeights /\ [][NextWeights]_vars

\* ------------------------------------------------------------ the trend series
\* plot_days and windows asked of compute_di_timeseries: shorter than, as long as and
\* longer than the days the store can hold.
PlotDays == {1, 2}

WindowPairs == {<<1, 2>>, <<2, 3>>, <<3, 1>>}

InitSeries == InitStore /\ horizon = MaxDay /\ rule_defs \in CatalogsDI

\* A compute_di_timeseries call returns res (or raises).
SeriesComputed(res, plot_days, windows) ==
    /\ WriteStore(res.db)
    /\ events' = <<>>
    /\ trace' = <<>>
    /\ last' = [op |-> "compute_di_timeseries", arg |-> res.end_date, ok |-> res.ok,
                ret |-> FALSE, P |-> NULL, plot_days |-> plot_days, windows |-> windows,
                rows |-> res.rows, plot_start |-> res.plot_start]
    /\ UNCHANGED <<today, horizon, calls>>

\* app.py tab_trend, for an end date of yesterday or today.
ComputeSeries ==
    \E end_date \in {today - 1, today}, plot_days \in PlotDays, windows \in WindowPairs :
        SeriesComputed(compute_di_timeseries(Store, end_date, plot_days, windows, today),
                       plot_days, windows)

\* The series reads rule_defs, rule_logs and app_meta only: days pass, logs are saved
\* and the series is computed.
NextSeries ==
    \/ Tick
    \/ SavePressed
    \/ ComputeSeries

SpecSeries == InitSeries /\ [][NextSeries]_vars

\* ------------------------------------------------------------ the statistics
\* Consistency windows of the select box: shorter and not shorter than the days
\* the store can hold.
StatWindows == {1, 3}

\* One rule without buffer; two rules without buffer; rule a with a day off.
CatalogsStats == {{Version("a", 1, 1, NULL, 2, 0)}, TwoRuleCatalog, GapCatalog}

\* Four rules of different age.
FourRuleCatalog ==
    {Version("a", 1, 1, NULL, 2, 1), Version("b", 1, 2, NULL, 2, 1),
     Version("c", 1, 2, NULL, 2, 1), Version("d", 1, 2, NULL, 2, 1)}

InitStats == InitStore /\ horizon = MaxDay /\ rule_defs \in CatalogsStats

InitRank == InitStore /\ horizon = MaxDay /\ rule_defs = FourRuleCatalog

\* compute_statistics returns res to tab_stats, which ranks the consistency rows.
StatsShown(res, end_date, consistency_window_days) ==
    /\ WriteStore(res.db)
    /\ events' = <<>>
    /\ trace' = <<>>
    /\ last' = [op |-> "compute_statistics", arg |-> end_date, ok |-> res.ok,
                ret |-> FALSE, P |-> NULL,
                consistency_window_days |-> consistency_window_days,
                global |-> res.global, consistency |-> res.consistency,
                rule_streaks |-> res.rule_streaks,
                ranking |-> consistency_ranking(res.consistency)]
    /\ UNCHANGED <<today, horizon, calls>>

\* Lines 265-269 and 500 of app.py: processed_through of the OPEN streak of db, then
\* compute_statistics for it.
StatsOfPage(db, consistency_window_days) ==
    StatsShown(compute_statistics(db, db.streaks[get_open_streak(db)].processed_through_date,
                                  consistency_window_days, today),
               db.streaks[get_open_streak(db)].processed_through_date,
               consistency_window_days)

\* A run of the page with the statistics tab: auto_process_until_yesterday, then the
\* tab for a window of the select box.
StatsPage ==
    \E win \in StatWindows :
        /\ process_up_to(Store, today - 1, today).ok
        /\ StatsOfPage(process_up_to(Store, today - 1, today).db, win)

NextStats ==
    \/ Tick
    \/ SavePressed
    \/ FinalizePressed
    \/ ResetStreakToday
    \/ StatsPage

SpecStats == InitStats /\ [][NextStats]_vars

NextRank ==
    \/ Tick
    \/ SavePressed
    \/ StatsPage

SpecRank == InitRank /\ [][NextRank]_vars

\* ------------------------------------------------------------ concurrent calls
\* Two sessions of the page run against one store.  A call in progress is at the store
\* access it makes next (pc); every step below is one read or one write of the store,
\* together with the local computation that follows it.  The calls start from the
\* store the first run of the page leaves: app_meta and the first OPEN row are there,
\* the catalog is valid, so _validate_rule_defs_no_overlaps and ensure_app_start_date
\* only read.
CatalogsRace ==
    {{Version("a", 1, 1, NULL, 2, 0)}, {Version("a", 1, 1, NULL, 2, 1)}, TwoRuleCatalog}

InitRace ==
    /\ today = 1
    /\ horizon = 1
    /\ app_meta = 1
    /\ streaks = create_open_streak([app_meta |-> 1, streaks |-> <<>>, rule_logs |-> {},
                                     rule_defs |-> {}], 1).streaks
    /\ rule_defs \in CatalogsRace
    /\ rule_logs = {}
    /\ last = NoCall
    /\ events = <<>>
    /\ trace = <<>>
    /\ calls = [p \in Procs |-> IdleCall]

\* A step of call p: the store after it and the call after it.
Stepped(p, db, call) ==
    /\ WriteStore(db)
    /\ calls' = [calls EXCEPT ![p] = call]
    /\ UNCHANGED <<today, horizon, last, events, trace>>

\* The call has returned.
Done(c, ret) == [IdleCall EXCEPT !.op = c.op, !.pc = "done", !.ret = ret]

\* The first key from position i on in ORDER BY rule_key that has an applicable row;
\* past the last key when there is none.
RECURSIVE NextRule(_, _)
NextRule(picked, i) ==
    IF i > Len(KeyOrder) THEN i
    ELSE IF RowsOf(picked, KeyOrder[i]) # {} THEN i
    ELSE NextRule(picked, i + 1)

\* The row the rule loop is at.
RdefOf(c) == CHOOSE r \in RowsOf(c.picked, KeyOrder[c.i]) : TRUE

\* Lines 180-193: the OPEN row sid as read (or inserted) at line 178, the break, the
\* applicable rules of next_day and the local rule_state.
RulesLoaded(c, sid, row, next_day, picked) ==
    IF next_day > c.max_date THEN [c EXCEPT !.pc = "return"]
    ELSE [c EXCEPT !.sid = sid, !.s_start = row.start_date, !.next_day = next_day,
                   !.picked = picked, !.rule_state = row.rule_state_json,
                   !.i = NextRule(picked, 1), !.end_reason = NoReason,
                   !.pc = IF NextRule(picked, 1) > Len(KeyOrder) THEN "persist" ELSE "log"]

AtDay(c, db, sid) ==
    RulesLoaded(c, sid, db.streaks[sid], db.streaks[sid].processed_through_date + 1,
                load_applicable_rule_rows_for_date(
                    db, db.streaks[sid].processed_through_date + 1))

\* Lines 214-231 for the rule the loop is at, cd being what CountDay makes of the
\* state read: the break of an ended streak, or the next rule.
CountedAs(c, cd) ==
    IF cd.ended
    THEN [c EXCEPT !.rule_state = cd.rule_state, !.end_reason = cd.end_reason,
                   !.pc = "save_state"]
    ELSE [c EXCEPT !.rule_state = cd.rule_state, !.i = NextRule(c.picked, c.i + 1),
                   !.pc = IF NextRule(c.picked, c.i + 1) > Len(KeyOrder)
                          THEN "persist" ELSE "log"]

Counted(c, state) ==
    CountedAs(c, CountDay([db |-> Store, rule_state |-> c.rule_state, ended |-> FALSE,
                           end_reason |-> NoReason, entering |-> [k \in {} |-> 0],
                           writes |-> <<>>],
                          RdefOf(c), c.next_day,
                          EnterWindow(c.rule_state, RdefOf(c),
                                      calc_window_index(c.s_start, c.next_day,
                                                        RdefOf(c).window_days)),
                          state))

\* process_up_to(max_date) is called: lines 171-172 read.
BeginProcess(p) ==
    /\ calls[p].pc = "idle"
    /\ validate_rule_defs_no_overlaps(Store)
    /\ app_meta # NULL
    /\ \E max_date \in {today - 1, today} :
          Stepped(p, Store, [IdleCall EXCEPT !.op = "process_up_to", !.pc = "open173",
                                             !.max_date = max_date])

\* Line 173: get_open_streak(sb)
Open173(p) ==
    /\ calls[p].pc = "open173"
    /\ Stepped(p, Store, [calls[p] EXCEPT !.pc = IF get_open_streak(Store) = 0
                                                  THEN "create173" ELSE "open178"])

\* Line 173: create_open_streak(sb, app_start)
Create173(p) ==
    /\ calls[p].pc = "create173"
    /\ Stepped(p, create_open_streak(Store, app_meta), [calls[p] EXCEPT !.pc = "open178"])

\* Line 178: get_open_streak(sb)
Open178(p) ==
    /\ calls[p].pc = "open178"
    /\ Stepped(p, Store, IF get_open_streak(Store) = 0
                         THEN [calls[p] EXCEPT !.pc = "create178"]
                         ELSE AtDay(calls[p], Store, get_open_streak(Store)))

\* Line 178: create_open_streak(sb, app_start)
Create178(p) ==
    /\ calls[p].pc = "create178"
    /\ Stepped(p, create_open_streak(Store, app_meta),
               AtDay(calls[p], create_open_streak(Store, app_meta), Len(streaks) + 1))

\* Line 211: _get_log_state
ReadLog(p) ==
    /\ calls[p].pc = "log"
    /\ Stepped(p, Store,
               IF get_log_state(Store, calls[p].next_day, RdefOf(calls[p]).rule_key) = "UNKNOWN"
               THEN [calls[p] EXCEPT !.pc = "coerce"]
               ELSE Counted(calls[p], get_log_state(Store, calls[p].next_day,
                                                    RdefOf(calls[p]).rule_key)))

\* Line 212: the upsert of _force_miss_if_unknown
Coerce(p) ==
    /\ calls[p].pc = "coerce"
    /\ Stepped(p, force_miss_if_unknown(Store, calls[p].next_day,
                                        RdefOf(calls[p]).rule_key, "UNKNOWN"),
               Counted(calls[p], "MISS"))

\* Lines 237-239: the update of rule_state_json on the row read at line 178
SaveState(p) ==
    /\ calls[p].pc = "save_state"
    /\ Stepped(p, [Store EXCEPT !.streaks[calls[p].sid].rule_state_json =
                                    calls[p].rule_state],
               [calls[p] EXCEPT !.pc = "close"])

\* Lines 84-92: the closing update of close_streak_and_open_next
CloseStreak(p) ==
    /\ calls[p].pc = "close"
    /\ Stepped(p, CloseRow(Store, calls[p].sid, calls[p].next_day, calls[p].end_reason),
               [calls[p] EXCEPT !.pc = "insert"])

\* Line 94: create_open_streak(sb, end_date + 1), then `continue`
InsertNext(p) ==
    /\ calls[p].pc = "insert"
    /\ Stepped(p, create_open_streak(Store, calls[p].next_day + 1),
               [calls[p] EXCEPT !.pc = "open178"])

\* Lines 244-250: the update that advances the row read at line 178
Persist(p) ==
    /\ calls[p].pc = "persist"
    /\ Stepped(p, [Store EXCEPT
                     !.streaks[calls[p].sid].processed_through_date = calls[p].next_day,
                     !.streaks[calls[p].sid].rule_state_json = calls[p].rule_state],
               [calls[p] EXCEPT !.pc = "open178"])

\* Line 252: get_open_streak(sb) and the return
ReturnProcess(p) ==
    /\ calls[p].pc = "return"
    /\ Stepped(p, Store, Done(calls[p], FALSE))

\* upsert_logs_for_date(today, states) is called with the toggles of the form:
\* line 99 reads.
BeginUpsert(p) ==
    /\ calls[p].pc = "idle"
    /\ app_meta # NULL
    /\ \E ui_states \in [ActiveKeys(Store, today) -> BOOLEAN] :
          Stepped(p, Store, [IdleCall EXCEPT !.op = "upsert_logs_for_date",
                                             !.pc = "u_open", !.next_day = today,
                                             !.states = ui_states])

\* Lines 105-107 for the processed_through_date read.
GuardRead(c, processed_through_db) ==
    IF IsFinalized(c.next_day, processed_through_db) THEN Done(c, FALSE)
    ELSE [c EXCEPT !.pc = "u_write"]

\* app.py line 100: get_open_streak
UpsertOpen(p) ==
    /\ calls[p].pc = "u_open"
    /\ Stepped(p, Store,
               IF get_open_streak(Store) = 0 THEN [calls[p] EXCEPT !.pc = "u_create"]
               ELSE GuardRead(calls[p],
                              streaks[get_open_streak(Store)].processed_through_date))

\* app.py lines 102-103: create_open_streak(sb_client, app_start)
UpsertCreate(p) ==
    /\ calls[p].pc = "u_create"
    /\ Stepped(p, create_open_streak(Store, app_meta), GuardRead(calls[p], app_meta - 1))

\* app.py lines 120-122: the upsert of the payload and `return True`
UpsertWrite(p) ==
    /\ calls[p].pc = "u_write"
    /\ Stepped(p, [Store EXCEPT !.rule_logs = UpsertAll(@, calls[p].next_day,
                                                        calls[p].states)],
               Done(calls[p], TRUE))

NextRace ==
    \E p \in Procs :
        \/ BeginProcess(p)
        \/ Open173(p)
        \/ Create173(p)
        \/ Open178(p)
        \/ Create178(p)
        \/ ReadLog(p)
        \/ Coerce(p)
        \/ SaveState(p)
        \/ CloseStreak(p)
        \/ InsertNext(p)
        \/ Persist(p)
        \/ ReturnProcess(p)
        \/ BeginUpsert(p)
        \/ UpsertOpen(p)
        \/ UpsertCreate(p)
        \/ UpsertWrite(p)

SpecRace == InitRace /\ [][NextRace]_vars

\* --------------------------------------------- the forward cursor
\* Lines 376-380 for every key of versions: the version under the cursor on day d and
\* whether it counts.
CursorPicks(versions, idx, d) ==
    [k \in DOMAIN versions |->
        [row |-> versions[k][idx[k]], applies |-> CursorApplies(versions[k][idx[k]], d)]]

\* Lines 364-390 as far as the cursor goes: d runs from start_date to end_date, idx
\* is advanced for every key on every day and is never moved back.
RECURSIVE CursorLoop(_, _, _, _, _)
CursorDay(versions, idx, d, end_date, picks) ==
    CursorLoop(versions, idx, d + 1, end_date, Append(picks, CursorPicks(versions, idx, d)))

CursorLoop(versions, idx, d, end_date, picks) ==
    IF d > end_date THEN picks
    ELSE CursorDay(versions,
                   [k \in DOMAIN idx |-> AdvanceCursor(versions[k], idx[k], d)],
                   d, end_date, picks)

\* Lines 333-390: the versions loaded up to end_date, idx = 0 for every key (1 here,
\* lists being counted from 1), and the days of [start_date..end_date] in order.
cursor_scan(db, start_date, end_date) ==
    CursorLoop(VersionLists(db, end_date),
               [k \in DOMAIN VersionLists(db, end_date) |-> 1],
               start_date, end_date, <<>>)

\* The catalogs of AnyCatalogs the validation accepts.
ValidCatalogs ==
    {c \in AnyCatalogs :
        validate_rule_defs_no_overlaps(
            [app_meta |-> NULL, streaks |-> <<>>, rule_logs |-> {}, rule_defs |-> c])}

InitCursor == InitStore /\ horizon = MaxDay /\ rule_defs \in ValidCatalogs

\* A compute_* call walks its date range, whatever range that is.
CursorScan ==
    \E start_date \in 1..CatalogDays :
        \E end_date \in start_date..CatalogDays :
            /\ last' = [op |-> "cursor_scan", arg |-> end_date, ok |-> TRUE, ret |-> FALSE,
                        P |-> NULL, start_date |-> start_date,
                        picks |-> cursor_scan(Store, start_date, end_date)]
            /\ UNCHANGED <<today, horizon, app_meta, streaks, rule_logs, rule_defs,
                           events, trace, calls>>

NextCursor == CursorScan

SpecCursor == InitCursor /\ [][NextCursor]_vars

\* --------------------------------------------- two calls in a row
\* What process_up_to(a) followed by process_up_to(b) returns together: the store and
\* the outcome of the second call, the events and day steps of both in order.
Followed(first, second) ==
    [ok |-> second.ok, db |-> second.db, writes |-> first.writes \o second.writes,
     events |-> first.events \o second.events, trace |-> first.trace \o second.trace]

\* The second call is made on the store the first one left; a first call that raised
\* has written nothing and the second raises as well.
ThenProcess(first, b, now) ==
    IF ~first.ok THEN first ELSE Followed(first, process_up_to(first.db, b, now))

TwiceReturned(first, both, a, b) ==
    /\ WriteStore(both.db)
    /\ events' = both.events
    /\ trace' = both.trace
    /\ last' = [op |-> "process_twice", arg |-> b, ok |-> both.ok, ret |-> FALSE,
                P |-> BoundaryBefore, first |-> a,
                first_steps |-> Len(first.trace), first_events |-> Len(first.events)]
    /\ UNCHANGED <<today, horizon, calls>>

\* process_up_to(a), then process_up_to(b) with a <= b, b being yesterday (a page
\* load) or today (finalize), and nothing written in between.
ProcessTwice ==
    \E b \in {today - 1, today} :
        \E a \in 0..b :
            TwiceReturned(process_up_to(Store, a, today),
                          ThenProcess(process_up_to(Store, a, today), b, today), a, b)

NextTwice ==
    \/ Tick
    \/ SavePressed
    \/ ProcessTwice

SpecTwice == Init /\ [][NextTwice]_vars

\* --------------------------------------------- one run of the page
\* The catalogs the runs start from: one rule without buffer, and a catalog the
\* validation rejects.
CatalogsRun == {{Version("a", 1, 1, NULL, 2, 0)}, OverlappingCatalog}

InitRun == InitStore /\ horizon = MaxDay /\ rule_defs \in CatalogsRun

\* Lines 254-258 of app.py on the store as the run finds it.
Ran == auto_process_until_yesterday(Store, today)

\* Lines 265-269 of app.py: processed_through of the OPEN streak, read after the
\* processing of the run.
ProcessedThrough(db) == db.streaks[get_open_streak(db)].processed_through_date

\* A handler of the run has acted on the store: P is the boundary of the OPEN streak
\* the handler found, before is the boundary the run found.
Handled(db, ok, op, arg, boundary) ==
    /\ WriteStore(db)
    /\ events' = <<>>
    /\ trace' = <<>>
    /\ last' = [op |-> op, arg |-> arg, ok |-> ok, ret |-> FALSE, P |-> boundary,
                before |-> BoundaryBefore]
    /\ UNCHANGED <<today, horizon, calls>>

\* ui_states of today's form with every box checked, or none.
FormOf(db, checked) == [k \in ActiveKeys(db, today) |-> checked]

\* Lines 254-258: the processing raised ValueError; st.stop() ends the run.
RunStopped ==
    LET res == Ran
    IN
        /\ ~res.ok
        /\ Handled(res.db, FALSE, "stopped", today - 1, BoundaryBefore)

\* Lines 270-277: a discipline index of the header, over the longest window.
RunScore ==
    LET res == Ran
    IN
        /\ res.ok
        /\ Handled(compute_discipline_index(res.db, ProcessedThrough(res.db), MaxWindow,
                                            today).db,
                   TRUE, "compute_discipline_index", ProcessedThrough(res.db),
                   ProcessedThrough(res.db))

\* Lines 361-366: the run of a press on Save.
RunSave ==
    LET res == Ran
    IN
        /\ res.ok
        /\ \E checked \in BOOLEAN :
            Handled(upsert_logs_for_date(res.db, today, FormOf(res.db, checked), today).db,
                    TRUE, "upsert_logs_for_date", today, ProcessedThrough(res.db))

\* Lines 370-374 on what the save returned.
FinalizeOfRun(up, boundary) ==
    IF up.ret
    THEN Handled(process_up_to(up.db, today, today).db, process_up_to(up.db, today, today).ok,
                 "process_up_to", today, boundary)
    ELSE Handled(up.db, TRUE, "upsert_logs_for_date", today, boundary)

\* Lines 369-376: the run of a press on Finalize.
RunFinalize ==
    LET res == Ran
    IN
        /\ res.ok
        /\ \E checked \in BOOLEAN :
            FinalizeOfRun(upsert_logs_for_date(res.db, today, FormOf(res.db, checked), today),
                          ProcessedThrough(res.db))

\* Lines 467-476: the trend tab, when a day is finalized.
RunTrend ==
    LET res == Ran
    IN
        /\ res.ok
        /\ ProcessedThrough(res.db) >= res.db.app_meta
        /\ Handled(compute_di_timeseries(res.db, ProcessedThrough(res.db), 2, <<1, 2>>,
                                         today).db,
                   TRUE, "compute_di_timeseries", ProcessedThrough(res.db),
                   ProcessedThrough(res.db))

\* Lines 494-500: the statistics tab.
RunStats ==
    LET res == Ran
    IN
        /\ res.ok
        /\ Handled(compute_statistics(res.db, ProcessedThrough(res.db), MaxWindow, today).db,
                   TRUE, "compute_statistics", ProcessedThrough(res.db),
                   ProcessedThrough(res.db))

\* The key typed into the rule-management forms of these runs: a second rule.
RunKeys == {KeyOrder[2]}

\* Lines 586-691: the run of a submitted rule-management form.
AdminOfRun(res, op, rule_key, boundary) == Handled(res.db, res.ok, op, rule_key, boundary)

RunAdmin ==
    LET res == Ran
    IN
        /\ res.ok
        /\ \E rule_key \in RunKeys, params \in ParamChoices :
            \/ AdminOfRun(admin_add_new_rule(res.db, rule_key, params, today),
                          "admin_add_new_rule", rule_key, ProcessedThrough(res.db))
            \/ AdminOfRun(admin_add_new_version(res.db, rule_key, params, today),
                          "admin_add_new_version", rule_key, ProcessedThrough(res.db))
            \/ AdminOfRun(admin_deactivate_rule_key(res.db, rule_key, today),
                          "admin_deactivate_rule_key", rule_key, ProcessedThrough(res.db))

NextRun ==
    \/ Tick
    \/ RunStopped
    \/ RunScore
    \/ RunSave
    \/ RunFinalize
    \/ RunTrend
    \/ RunStats
    \/ RunAdmin

SpecRun == InitRun /\ [][NextRun]_vars

\* ================================================================ claims
Max(x, y) == IF x >= y THEN x ELSE y

OpenStreaks == {i \in DOMAIN streaks : streaks[i].status = "OPEN"}

\* A process_up_to call (directly or from the Finalize button) has just returned.
ProcessReturned == last.op = "process_up_to" /\ last.ok

\* The rule row applicable to key k on day d.
RowOn(k, d) == CHOOSE r \in load_applicable_rule_rows_for_date(Store, d) : r.rule_key = k

\* C1: calling process_up_to(D) again right after a completed process_up_to(D)
\* leaves streaks, logs and catalog as they are and reports no events.
IsNoOp(again) == again.ok /\ again.db = Store /\ again.events = <<>>

C1_SecondCallNoOp ==
    ProcessReturned => IsNoOp(process_up_to(Store, last.arg, today))

\* A completed process_up_to that advanced over several days and closed a streak.
C1_Witness ==
    ProcessReturned /\ Len(events) >= 1 /\ Len(trace) >= 2

\* C2: after every completed operation exactly one streak row is OPEN.
C2_ExactlyOneOpen ==
    (last.op # "none" /\ last.ok) => Cardinality(OpenStreaks) = 1

\* A manual reset has closed a streak after an earlier closure.
C2_Witness ==
    last.op = "reset_streak_today" /\ last.ok /\ last.ret /\ Len(streaks) >= 3

\* C3 (window_days=7, buffer_misses=1, rule a applicable every day): two MISS days
\* of a streak in the same window counted from the streak's start close it on the
\* second; a streak whose only two MISS days lie in different windows is not closed
\* by the rule.
W7Misses(s) ==
    {d \in s.start_date..s.processed_through_date : get_log_state(Store, d, "a") = "MISS"}

W7SameWindow(s, d1, d2) ==
    LET w == (CHOOSE r \in rule_defs : r.rule_key = "a").window_days
    IN  (d1 - s.start_date) \div w = (d2 - s.start_date) \div w

C3_TwoMissesSameWindowClose ==
    \A i \in DOMAIN streaks :
        LET s == streaks[i]
        IN  /\ \A d1, d2 \in W7Misses(s) :
                (d1 < d2 /\ W7SameWindow(s, d1, d2))
                    => (s.status = "CLOSED" /\ s.end_date = d2)
            /\ (/\ Cardinality(W7Misses(s)) = 2
                /\ \E d1, d2 \in W7Misses(s) : ~W7SameWindow(s, d1, d2))
                    => s.end_reason_json.type # "RULE"

\* A streak closed on its second miss, and a later streak still OPEN with exactly two
\* misses that lie in different windows.
C3_Witness ==
    /\ \E i \in DOMAIN streaks :
          streaks[i].status = "CLOSED" /\ Cardinality(W7Misses(streaks[i])) = 2
    /\ \E i \in DOMAIN streaks :
          /\ streaks[i].status = "OPEN"
          /\ Cardinality(W7Misses(streaks[i])) = 2
          /\ \E d1, d2 \in W7Misses(streaks[i]) : ~W7SameWindow(streaks[i], d1, d2)

\* C4: on the day D a rule crosses its buffer, the row is CLOSED with end_date = D
\* and the row opened for it starts on D+1, is processed through D and has an empty
\* rule_state; the next day evaluated starts every counter at 0.
FreshStreak(start_date) ==
    [start_date |-> start_date, end_date |-> NULL, status |-> "OPEN",
     processed_through_date |-> start_date - 1,
     rule_state_json |-> EmptyRuleState, end_reason_json |-> NoReason]

C4_CloseOpensFresh ==
    \A i \in DOMAIN trace :
        trace[i].ended =>
            /\ streaks[trace[i].streak_id].status = "CLOSED"
            /\ streaks[trace[i].streak_id].end_date = trace[i].date
            /\ trace[i].opened = FreshStreak(trace[i].date + 1)
            /\ trace[i].streak_id + 1 \in DOMAIN streaks
            /\ streaks[trace[i].streak_id + 1].start_date = trace[i].date + 1
            /\ i + 1 \in DOMAIN trace =>
                /\ trace[i + 1].streak_id = trace[i].streak_id + 1
                /\ trace[i + 1].pre = EmptyRuleState
                /\ \A k \in DOMAIN trace[i + 1].entering : trace[i + 1].entering[k] = 0

\* A streak closed with a counted miss, and the next day evaluated on the new streak.
C4_Witness ==
    \E i \in DOMAIN trace :
        /\ trace[i].ended
        /\ i + 1 \in DOMAIN trace
        /\ DOMAIN trace[i + 1].entering # {}
        /\ \E k \in DOMAIN trace[i].post : trace[i].post[k].misses >= 1

\* C5: day D closes the streak exactly when some rule applicable on D has a MISS on D
\* (UNKNOWN counting as MISS) that takes its counter for the window above
\* buffer_misses; otherwise the streak stays OPEN with processed_through_date = D.
CountWith(t, r) ==
    LET k == r.rule_key
        widx == (t.date - t.start_date) \div r.window_days
        before == IF k \in DOMAIN t.pre /\ t.pre[k].widx = widx THEN t.pre[k].misses ELSE 0
    IN  before + 1

Crosses(t, r) ==
    /\ get_log_state(Store, t.date, r.rule_key) \in {"MISS", "UNKNOWN"}
    /\ CountWith(t, r) > r.buffer_misses

C6_BoundaryIsMax ==
    ProcessReturned =>
        /\ OpenStreaks # {}
        /\ streaks[get_open_streak(Store)].processed_through_date = Max(last.arg, last.P)

\* A call that closed a streak on the way and went on to the target on the new one.
C6_Witness ==
    /\ ProcessReturned
    /\ last.arg > last.P + 1
    /\ \E i \in DOMAIN trace : trace[i].ended /\ i < Len(trace)

\* C7: after a completed process_up_to every rule applicable on a finalized day has
\* a PASS or MISS log on that day.
C7_FinalizedLogsDecided ==
    ProcessReturned =>
        \A d \in app_meta..streaks[get_open_streak(Store)].processed_through_date :
            \A k \in ActiveKeys(Store, d) :
                get_log_state(Store, d, k) \in {"PASS", "MISS"}

\* C8: no step changes a log row of a finalized day, and a save for a finalized day
\* returns False and writes nothing.
FinalizedRows(logs, boundary) == {l \in logs : l.log_date <= boundary}

C8_FinalizedLogsFrozen ==
    [][get_open_streak(Store) # 0 =>
        LET boundary == streaks[get_open_streak(Store)].processed_through_date
        IN  /\ FinalizedRows(rule_logs', boundary) = FinalizedRows(rule_logs, boundary)
            /\ (last'.op = "upsert_logs_for_date" /\ last'.arg <= boundary)
                    => (~last'.ret /\ rule_logs' = rule_logs)]_vars

\* A save for today was refused because today is finalized, a log of today existing.
C8_Witness ==
    /\ last.op = "upsert_logs_for_date"
    /\ ~last.ret
    /\ \E l \in rule_logs : l.log_date = last.arg

\* C9: on the first day of a window of the version applicable that day, the counter
\* is 0 when the day's log is read.
C9_WindowStartResets ==
    \A i \in DOMAIN trace :
        \A k \in DOMAIN trace[i].entering :
            (trace[i].date - trace[i].start_date) % RowOn(k, trace[i].date).window_days = 0
                => trace[i].entering[k] = 0

\* C10: on the day a new version takes effect, if that day is not the first day of a
\* window of the new version, the counter read is the one stored after the day before.
C10_VersionChangeKeepsCounter ==
    \A i \in DOMAIN trace :
        \A k \in DOMAIN trace[i].entering :
            LET t == trace[i]
                r == RowOn(k, t.date)
            IN  (/\ r.version > 1
                 /\ r.effective_from = t.date
                 /\ k \in DOMAIN t.pre
                 /\ (t.date - t.start_date) % r.window_days # 0)
                    => t.entering[k] = t.pre[k].misses

\* C11: when process_up_to(T) dies between two of its writes, a complete
\* process_up_to(T) run on what it left gives the same streak rows and the same logs
\* as process_up_to(T) run in one piece instead.
C11_RetryEqualsUninterrupted ==
    [][last'.op = "aborted" =>
        /\ process_up_to(Store', last'.arg, today).db.streaks
                = process_up_to(Store, last'.arg, today).db.streaks
        /\ process_up_to(Store', last'.arg, today).db.rule_logs
                = process_up_to(Store, last'.arg, today).db.rule_logs]_vars

\* C12: when process_up_to died after closing the last streak on day D and before
\* inserting the next row, the next process_up_to opens a row that starts on D+1,
\* processed through D, and evaluates no day up to D.
InterruptedAfterClose ==
    /\ last.op = "aborted"
    /\ Len(streaks) >= 1
    /\ OpenStreaks = {}
    /\ streaks[Len(streaks)].status = "CLOSED"

ResumesAfter(res, n, D) ==
    /\ res.ok
    /\ Len(res.db.streaks) > n
    /\ res.db.streaks[n + 1].start_date = D + 1
    /\ \A i \in DOMAIN res.trace : res.trace[i].date > D
    /\ IF res.trace = <<>> THEN res.db.streaks[n + 1].processed_through_date = D
       ELSE res.trace[1].date = D + 1

C12_ResumeAfterClose ==
    InterruptedAfterClose =>
        ResumesAfter(process_up_to(Store, last.arg, today), Len(streaks),
                     streaks[Len(streaks)].end_date)

\* A catalog with a version that ends before it starts, or with two versions of one
\* key whose inclusive ranges (open-ended without effective_to) share a day.
InvalidCatalog ==
    \/ \E r \in rule_defs : r.effective_to # NULL /\ r.effective_to < r.effective_from
    \/ \E r, p \in rule_defs :
          /\ r # p /\ r.rule_key = p.rule_key
          /\ r.effective_from <= p.effective_from
          /\ (r.effective_to = NULL \/ p.effective_from <= r.effective_to)

\* C13: with a catalog that has a malformed range or two overlapping versions of a
\* key, process_up_to, compute_discipline_index, compute_di_timeseries and
\* compute_statistics raise, and app_meta, streaks and logs are as before the call.
GatedOps ==
    {"process_up_to", "compute_discipline_index", "compute_di_timeseries",
     "compute_statistics"}

C13_ValidationGate ==
    [][(InvalidCatalog /\ last'.op \in GatedOps) =>
            (~last'.ok /\ Store' = Store /\ events' = <<>>)]_vars

\* One of the calls has raised on an invalid catalog, leaving out the app_meta row
\* it inserts when the catalog is valid.
C13_Witness ==
    /\ InvalidCatalog
    /\ last.op \in GatedOps
    /\ ~last.ok
    /\ app_meta = NULL

\* C18: compute_discipline_index(end_date, W) is the mean, over the days of
\* max(app_start, end_date-W+1)..end_date with an applicable rule, of the weight of
\* the applicable rules with a PASS log over the weight of all applicable rules; the
\* other days give neither a value nor a day, and without any day it is 0 with 0 days.
DIReturned == last.op = "compute_discipline_index" /\ last.ok

ApplicableOn(d) == load_applicable_rule_rows_for_date(Store, d)

DaysWithRules(lo, hi) == {d \in lo..hi : ApplicableOn(d) # {}}

TotalWeight(d) == SumOver([r \in ApplicableOn(d) |-> r.weight], ApplicableOn(d))

PassedWeight(d) ==
    SumOver([r \in ApplicableOn(d) |->
                IF get_log_state(Store, d, r.rule_key) = "PASS" THEN r.weight ELSE 0],
            ApplicableOn(d))

RECURSIVE RatioSum(_)
RatioSum(S) ==
    IF S = {} THEN Frac(0, 1)
    ELSE FracAdd(Frac(PassedWeight(CHOOSE d \in S : TRUE), TotalWeight(CHOOSE d \in S : TRUE)),
                 RatioSum(S \ {CHOOSE d \in S : TRUE}))

FracEq(x, y) == x.num * y.den = y.num * x.den

IsMeanOver(di, days, S) ==
    /\ days = Cardinality(S)
    /\ IF S = {} THEN di.num = 0
       ELSE FracEq(di, Frac(RatioSum(S).num, RatioSum(S).den * Cardinality(S)))

C18_MeanOfDailyRatios ==
    DIReturned =>
        IsMeanOver(last.di, last.days,
                   DaysWithRules(Max(app_meta, last.arg - last.window_days + 1), last.arg))

\* An index strictly between 0 and 1 over a range from which a day without any
\* applicable rule was left out.
C18_Witness ==
    /\ DIReturned
    /\ last.days >= 2
    /\ last.days < last.arg - last.start_date + 1
    /\ 0 < last.di.num /\ last.di.num < last.di.den

\* C19: over a range with a day that has an applicable rule, the index is exactly 0
\* when no applicable (day, rule) has a PASS log and exactly 1 when every one has.
RatedPairs(lo, hi) == {p \in (lo..hi) \X Keys : p[2] \in ActiveKeys(Store, p[1])}

ZeroOrOne(di, pairs) ==
    /\ (\A p \in pairs : get_log_state(Store, p[1], p[2]) # "PASS") => di.num = 0
    /\ (\A p \in pairs : get_log_state(Store, p[1], p[2]) = "PASS") => di.num = di.den

C19_ExactlyZeroOrOne ==
    (DIReturned /\ last.days >= 1) =>
        ZeroOrOne(last.di, RatedPairs(last.start_date, last.arg))

\* An index of exactly 1 over several days, two rules of different weight passing.
C19_Witness ==
    /\ DIReturned
    /\ last.days >= 2
    /\ last.di.num = last.di.den
    /\ \E d \in last.start_date..last.arg : Cardinality(ActiveKeys(Store, d)) = 2

\* C20: the day count of compute_discipline_index(end_date, W) is at most
\* min(W, end_date - app_start + 1), 0 when end_date < app_start, and the range starts
\* no earlier than app_start.
C20_DayCountWithinAppLife ==
    DIReturned =>
        /\ last.days <= last.window_days
        /\ last.days <= Max(0, last.arg - app_meta + 1)
        /\ last.start_date >= app_meta

\* A window reaching back before app_start, rules applying there, counted from
\* app_start only.
C20_Witness ==
    /\ DIReturned
    /\ last.arg - last.window_days + 1 < app_meta
    /\ ApplicableOn(app_meta - 1) # {}
    /\ last.days = last.arg - app_meta + 1
    /\ last.days >= 1

\* C14: the validation raises exactly when some version ends before it starts or two
\* versions of one key have intersecting inclusive ranges; comparing each span with
\* its predecessor in effective_from order misses no intersecting pair.
Validated == last.op = "validate_rule_defs_no_overlaps"

C14_FailsIffMalformedOrOverlap ==
    Validated => (last.ok <=> ~InvalidCatalog)

\* The validation has raised on well-formed spans of which the first and the last in
\* effective_from order intersect, another span lying between their starts.
C14_Witness ==
    /\ Validated
    /\ ~last.ok
    /\ \A r \in rule_defs : r.effective_to = NULL \/ r.effective_to >= r.effective_from
    /\ \E r, q, p \in rule_defs :
          /\ r.rule_key = "a" /\ q.rule_key = "a" /\ p.rule_key = "a"
          /\ r.effective_from < q.effective_from /\ q.effective_from < p.effective_from
          /\ (r.effective_to = NULL \/ r.effective_to >= p.effective_from)

\* C15: from a valid catalog, whatever rule-management calls are made on whatever
\* days, no two versions of a key overlap and no version ends before it starts.
C15_CatalogStaysValid == ~InvalidCatalog

\* A key with three versions, the last one added by admin_add_new_version.
C15_Witness ==
    /\ last.op = "admin_add_new_version"
    /\ last.ok
    /\ Cardinality({r \in rule_defs : r.rule_key = last.arg}) >= 3

\* C16: a rule-management call made today leaves, for every key and every day up to
\* today, the version resolved for that day (or that none applies) as it was.
AdminOps == {"admin_add_new_rule", "admin_add_new_version", "admin_deactivate_rule_key"}

ResolvedOn(db, k, d) ==
    {[version |-> r.version, window_days |-> r.window_days,
      buffer_misses |-> r.buffer_misses, weight |-> r.weight] :
        r \in {x \in load_applicable_rule_rows_for_date(db, d) : x.rule_key = k}}

C16_EffectTomorrowOnly ==
    [][last'.op \in AdminOps =>
        \A k \in Keys, d \in 0..today :
            ResolvedOn(Store', k, d) = ResolvedOn(Store, k, d)]_vars

\* A call that returned after ending the version that applies today.
C16_Witness ==
    /\ last.op \in {"admin_add_new_version", "admin_deactivate_rule_key"}
    /\ last.ok
    /\ \E r \in rule_defs :
          r.rule_key = last.arg /\ r.effective_to = today /\ r.effective_from < today

\* C17: admin_add_new_version and admin_deactivate_rule_key raise when the key has a
\* version starting tomorrow or later, admin_add_new_rule raises for a key that
\* exists, admin_add_new_version for a key that does not; a call that raises leaves
\* the catalog as it was.
KeyExists(k) == \E r \in rule_defs : r.rule_key = k

ScheduledFromTomorrow(k) ==
    \E r \in rule_defs : r.rule_key = k /\ r.effective_from >= today + 1

C17_RejectionsLeaveCatalog ==
    [][last'.op \in AdminOps =>
        /\ (/\ last'.op \in {"admin_add_new_version", "admin_deactivate_rule_key"}
            /\ ScheduledFromTomorrow(last'.arg)) => ~last'.ok
        /\ (last'.op = "admin_add_new_rule" /\ KeyExists(last'.arg)) => ~last'.ok
        /\ (last'.op = "admin_add_new_version" /\ ~KeyExists(last'.arg)) => ~last'.ok
        /\ ~last'.ok => rule_defs' = rule_defs]_vars

\* admin_add_new_version has raised for a key with a version starting tomorrow and a
\* version that applies today.
C17_Witness ==
    /\ last.op = "admin_add_new_version"
    /\ ~last.ok
    /\ \E r \in rule_defs : r.rule_key = last.arg /\ r.effective_from = today + 1
    /\ admin_get_version_applicable_on(Store, last.arg, today) # {}

\* C23: when several applicable rules exceed their buffer on day D, the end_reason of
\* the streak closed on D names the first of them in rule_key order, and the call
\* reports exactly one STREAK_ENDED event for D.
KeyIndex(k) == CHOOSE i \in DOMAIN KeyOrder : KeyOrder[i] = k

CrossingKeys(t) ==
    {r.rule_key : r \in {x \in load_applicable_rule_rows_for_date(Store, t.date) :
                            Crosses(t, x)}}

NamesSmallest(t, crossing) ==
    /\ t.after.end_reason_json.rule_key \in crossing
    /\ \A k \in crossing : KeyIndex(t.after.end_reason_json.rule_key) <= KeyIndex(k)
    /\ Cardinality({j \in DOMAIN events : events[j].reason.date = t.date}) = 1

C23_SmallestKeyNamed ==
    \A i \in DOMAIN trace : trace[i].ended => NamesSmallest(trace[i], CrossingKeys(trace[i]))

\* A day on which two rules exceed their buffer has closed the streak.
C23_Witness ==
    \E i \in DOMAIN trace : trace[i].ended /\ Cardinality(CrossingKeys(trace[i])) >= 2

\* C24: every streak row is processed through start_date - 1 or later, and every
\* CLOSED row ends on or after its start and is processed through its end.
C24_StreakDatesOrdered ==
    \A i \in DOMAIN streaks :
        /\ streaks[i].processed_through_date >= streaks[i].start_date - 1
        /\ streaks[i].status = "CLOSED" =>
            /\ streaks[i].end_date >= streaks[i].start_date
            /\ streaks[i].processed_through_date = streaks[i].end_date

\* A reset asked for on the day the streak had already ended: nothing was closed, the
\* row opened for tomorrow has no processed day, a one-day streak is CLOSED.
C24_Witness ==
    /\ last.op = "reset_streak_today" /\ last.ok /\ ~last.ret
    /\ OpenStreaks # {}
    /\ streaks[get_open_streak(Store)].start_date = today + 1
    /\ streaks[get_open_streak(Store)].processed_through_date = today
    /\ \E i \in DOMAIN streaks :
          streaks[i].status = "CLOSED" /\ streaks[i].end_date = streaks[i].start_date

\* C28: after a completed process_up_to, for every rule applicable on the day the
\* OPEN streak is processed through, the misses stored for the rule are at most the
\* buffer_misses of the version applicable on that day.
StoredWithinBuffer(s) ==
    \A r \in load_applicable_rule_rows_for_date(Store, s.processed_through_date) :
        r.rule_key \in DOMAIN s.rule_state_json
            => s.rule_state_json[r.rule_key].misses <= r.buffer_misses

C28_StoredMissesWithinBuffer ==
    ProcessReturned => StoredWithinBuffer(streaks[get_open_streak(Store)])


\* C21: the index compute_discipline_index returns lies in [0, 1], whatever weights
\* the rule forms have stored and whatever the logs hold.
C21_IndexInUnitInterval ==
    DIReturned => /\ last.di.den > 0
                  /\ 0 <= last.di.num
                  /\ last.di.num <= last.di.den


\* C22: every window value of every row compute_di_timeseries returns is the plain
\* mean, over the days from max(app_start, d - W + 1) to d, of the day's passed weight
\* over its applicable weight (0 on a day without weight), the row's di1 is the value
\* of its own day, and no lookup of the call misses its date.
SeriesReturned == last.op = "compute_di_timeseries"

NaiveDi1(d) ==
    IF TotalWeight(d) > 0 THEN Frac(PassedWeight(d), TotalWeight(d)) ELSE Frac(0, 1)

RECURSIVE NaiveSum(_, _)
NaiveSum(lo, hi) ==
    IF lo > hi THEN Frac(0, 1) ELSE FracAdd(NaiveDi1(lo), NaiveSum(lo + 1, hi))

NaiveMean(lo, hi) == Frac(NaiveSum(lo, hi).num, NaiveSum(lo, hi).den * (hi - lo + 1))

RowIsNaive(row, windows) ==
    /\ FracEq(row.di1, NaiveDi1(row.date))
    /\ \A j \in 1..2 :
          FracEq(row.di[j], NaiveMean(Max(app_meta, row.date - windows[j] + 1), row.date))

C22_PrefixSumsAreNaiveMeans ==
    SeriesReturned =>
        /\ last.ok
        /\ Len(last.rows) = IF last.arg < app_meta THEN 0 ELSE last.arg - last.plot_start + 1
        /\ \A i \in DOMAIN last.rows :
              /\ last.rows[i].date = last.plot_start + (i - 1)
              /\ RowIsNaive(last.rows[i], last.windows)

\* A row whose window reaches back before the first plotted day, over days of
\* different ratios.
C22_Witness ==
    /\ SeriesReturned /\ last.ok
    /\ \E i \in DOMAIN last.rows, j \in 1..2 :
          /\ last.rows[i].date - last.windows[j] + 1 < last.plot_start
          /\ app_meta < last.plot_start
          /\ last.rows[i].di[j].num > 0
          /\ last.rows[i].di[j].num < last.rows[i].di[j].den


\* C25: the global statistics of compute_statistics count every streak row once, with
\* length end_date - start_date + 1 for a CLOSED row and processed_through_date -
\* start_date + 1 for the OPEN one; min and max are the least and greatest length, and
\* the deviation is 0 under two rows.
StatsReturned == last.op = "compute_statistics" /\ last.ok

RowLength(r) ==
    IF r.status = "CLOSED" THEN r.end_date - r.start_date + 1
    ELSE r.processed_through_date - r.start_date + 1

RowLengths == {RowLength(streaks[i]) : i \in DOMAIN streaks}

C25_GlobalStreakStatistics ==
    StatsReturned =>
        /\ last.global.count = Len(streaks)
        /\ streaks # <<>> =>
            /\ last.global.min \in RowLengths
            /\ last.global.max \in RowLengths
            /\ \A l \in RowLengths : last.global.min <= l /\ l <= last.global.max
            /\ FracEq(last.global.mean,
                      Frac(SumOver([i \in DOMAIN streaks |-> RowLength(streaks[i])],
                                   DOMAIN streaks), Len(streaks)))
        /\ Len(streaks) < 2 => last.global.variance.num = 0


\* C27: for every rule, the runs compute_statistics reports are the maximal runs of
\* PASS among the rule's applicable days from app_start to end_date, a day on which
\* the rule is not applicable neither ending nor extending a run; their lengths sum to
\* the applicable PASS days, and current_streak is the last run when the last
\* applicable day is a PASS and 0 otherwise.
ApplicableDays(k) == {d \in app_meta..last.arg : k \in ActiveKeys(Store, d)}

IsPassDay(k, d) == get_log_state(Store, d, k) = "PASS"

PassDays(k) == {d \in ApplicableDays(k) : IsPassDay(k, d)}

LaterDays(k, d) == {x \in ApplicableDays(k) : x > d}

EarlierDays(k, d) == {x \in ApplicableDays(k) : x < d}

Least(S) == CHOOSE x \in S : \A y \in S : x <= y

Greatest(S) == CHOOSE x \in S : \A y \in S : x >= y

RunStarts(k) ==
    {d \in PassDays(k) :
        EarlierDays(k, d) = {} \/ ~IsPassDay(k, Greatest(EarlierDays(k, d)))}

RECURSIVE RunLengthFrom(_, _)
RunLengthFrom(k, d) ==
    IF LaterDays(k, d) # {} /\ IsPassDay(k, Least(LaterDays(k, d)))
    THEN 1 + RunLengthFrom(k, Least(LaterDays(k, d)))
    ELSE 1

RECURSIVE MaximalRuns(_, _)
MaximalRuns(k, starts) ==
    IF starts = {} THEN <<>>
    ELSE <<RunLengthFrom(k, Least(starts))>> \o MaximalRuns(k, starts \ {Least(starts)})

RunsAreMaximal(row) ==
    /\ row.runs = MaximalRuns(row.rule_key, RunStarts(row.rule_key))
    /\ row.streak_count = Len(row.runs)
    /\ SumSeq(row.runs) = Cardinality(PassDays(row.rule_key))
    /\ row.applicable_days = Cardinality(ApplicableDays(row.rule_key))
    /\ row.max = (IF row.runs = <<>> THEN 0 ELSE Greatest({row.runs[i] : i \in DOMAIN row.runs}))
    /\ row.current_streak =
          (IF /\ ApplicableDays(row.rule_key) # {}
              /\ IsPassDay(row.rule_key, Greatest(ApplicableDays(row.rule_key)))
           THEN row.runs[Len(row.runs)] ELSE 0)

C27_PassRunsAreMaximal ==
    (StatsReturned /\ last.arg >= app_meta) =>
        /\ {last.rule_streaks[n].rule_key : n \in DOMAIN last.rule_streaks}
              = {r.rule_key : r \in {x \in rule_defs : x.effective_from <= last.arg}}
        /\ \A n \in DOMAIN last.rule_streaks : RunsAreMaximal(last.rule_streaks[n])

\* A run of two PASS days around a day on which the rule is not applicable, still
\* open at end_date.
C27_Witness ==
    /\ StatsReturned
    /\ \E n \in DOMAIN last.rule_streaks :
          /\ last.rule_streaks[n].runs = <<2>>
          /\ last.rule_streaks[n].current_streak = 2
          /\ last.rule_streaks[n].applicable_days = 2
          /\ last.arg - app_meta + 1 = 3


\* C26: the consistency ranking leaves out the rules without an applicable day in the
\* window; top-3 holds the three rated rules of highest pass rate and bottom-3 the
\* three of lowest, and among rules of equal rate the one with more applicable days
\* is chosen first and listed first, in both lists.
RatedSet == {last.consistency[n] : n \in {m \in DOMAIN last.consistency :
                                              last.consistency[m].applicable_days > 0}}

SeqSet(s) == {s[i] : i \in DOMAIN s}

TopBeats(x, y) ==
    \/ FracLess(y.pass_rate, x.pass_rate)
    \/ FracEq(x.pass_rate, y.pass_rate) /\ x.applicable_days > y.applicable_days

BottomBeats(x, y) ==
    \/ FracLess(x.pass_rate, y.pass_rate)
    \/ FracEq(x.pass_rate, y.pass_rate) /\ x.applicable_days > y.applicable_days

ThreeOf(list) ==
    /\ SeqSet(list) \subseteq RatedSet
    /\ Cardinality(SeqSet(list)) = Len(list)
    /\ Len(list) = IF Cardinality(RatedSet) < 3 THEN Cardinality(RatedSet) ELSE 3

TopRanked(list) ==
    /\ ThreeOf(list)
    /\ \A i, j \in DOMAIN list : i < j => ~TopBeats(list[j], list[i])
    /\ \A x \in SeqSet(list), y \in RatedSet \ SeqSet(list) : ~TopBeats(y, x)

BottomRanked(list) ==
    /\ ThreeOf(list)
    /\ \A i, j \in DOMAIN list : i < j => ~BottomBeats(list[j], list[i])
    /\ \A x \in SeqSet(list), y \in RatedSet \ SeqSet(list) : ~BottomBeats(y, x)

C26_RankingByRateThenDays ==
    StatsReturned => TopRanked(last.ranking.top3) /\ BottomRanked(last.ranking.bot3)


\* C29: once two concurrent process_up_to calls have both returned, there is at most
\* one OPEN streak and no two streak rows have the same start_date.
BothProcessed ==
    \A p \in Procs : calls[p].pc = "done" /\ calls[p].op = "process_up_to"

C29_OneOpenAfterConcurrentCalls ==
    BothProcessed =>
        /\ Cardinality(OpenStreaks) <= 1
        /\ \A i, j \in DOMAIN streaks :
              streaks[i].start_date = streaks[j].start_date => i = j

\* C30: the write of a save that runs next to a process_up_to call changes no log row
\* of a day that is finalized when it is written.
FinalizedThrough == Greatest({0} \cup {streaks[i].processed_through_date : i \in DOMAIN streaks})

SaveWrites(p) == calls[p].pc = "u_write" /\ calls'[p].pc = "done"

C30_SaveLeavesFinalizedDay ==
    [][\A p \in Procs :
          SaveWrites(p) =>
              FinalizedRows(rule_logs', FinalizedThrough)
                  = FinalizedRows(rule_logs, FinalizedThrough)]_vars


\* C33: a CLOSED streak row is never modified or deleted by a later operation: every
\* step of the system leaves each row that is CLOSED before it in place, field by field.
ClosedRowsKept(before, after) ==
    \A i \in DOMAIN before :
        before[i].status = "CLOSED" => (i \in DOMAIN after /\ after[i] = before[i])

C33_ClosedStreaksFrozen == [][ClosedRowsKept(streaks, streaks')]_vars

\* A CLOSED row stands while a later call has advanced the row after it.
C33_Witness ==
    /\ last.op \in {"process_up_to", "reset_streak_today", "upsert_logs_for_date"}
    /\ Len(streaks) >= 2
    /\ streaks[1].status = "CLOSED"
    /\ streaks[2].processed_through_date >= streaks[2].start_date

\* C37: after every completed call the streak rows in streak_id order tile the
\* calendar: the first starts at app_start, each later one starts the day after its
\* predecessor's end_date, all but the last are CLOSED, and the lengths sum to the
\* number of finalized days.
TiledLength(r) ==
    (IF r.status = "CLOSED" THEN r.end_date ELSE r.processed_through_date)
        - r.start_date + 1

RECURSIVE TiledSum(_)
TiledSum(n) == IF n = 0 THEN 0 ELSE TiledLength(streaks[n]) + TiledSum(n - 1)

C37_StreaksTileCalendar ==
    (last.op \in {"process_up_to", "reset_streak_today"} /\ last.ok) =>
        /\ streaks # <<>>
        /\ streaks[1].start_date = app_meta
        /\ \A i \in DOMAIN streaks :
            /\ i < Len(streaks) => streaks[i].status = "CLOSED"
            /\ i > 1 => streaks[i].start_date = streaks[i - 1].end_date + 1
        /\ streaks[Len(streaks)].status = "OPEN"
        /\ TiledSum(Len(streaks))
            = streaks[Len(streaks)].processed_through_date - app_meta + 1

\* Three rows after a completed call: one closed by a rule, one by a reset.
C37_Witness ==
    /\ last.op \in {"process_up_to", "reset_streak_today"} /\ last.ok
    /\ Len(streaks) >= 3
    /\ \E i \in DOMAIN streaks : streaks[i].end_reason_json.type = "RULE"
    /\ \E i \in DOMAIN streaks : streaks[i].end_reason_json.type = "MANUAL_RESET"

\* C38: every streak closed by process_up_to has end_reason.date = end_date,
\* end_reason.misses_in_window > end_reason.buffer_misses, and its rule_state entry
\* for end_reason.rule_key holds that misses count and that rule_version.
ClosedByRule == {i \in DOMAIN streaks : /\ streaks[i].status = "CLOSED"
                                        /\ streaks[i].end_reason_json.type = "RULE"}

CarriesTerminalCounters(r) ==
    LET reason == r.end_reason_json
    IN  /\ reason.date = r.end_date
        /\ reason.misses_in_window > reason.buffer_misses
        /\ reason.rule_key \in DOMAIN r.rule_state_json
        /\ r.rule_state_json[reason.rule_key].misses = reason.misses_in_window
        /\ r.rule_state_json[reason.rule_key].ver = reason.rule_version

C38_ClosingRecordCarriesCounters ==
    \A i \in ClosedByRule : CarriesTerminalCounters(streaks[i])

\* A streak closed on a later day than its first, by a second miss in the window.
C38_Witness ==
    \E i \in ClosedByRule :
        /\ streaks[i].end_date > streaks[i].start_date
        /\ streaks[i].end_reason_json.misses_in_window >= 2

\* C39: a completed process_up_to(T) has performed exactly max(0, T - P) day-steps,
\* P being the boundary of the OPEN streak at entry; the i-th step evaluates day
\* P + i and leaves the OPEN streak's boundary on that day, also when the step
\* closes a streak.
BoundaryAfterStep(t) ==
    IF t.ended THEN t.opened.processed_through_date
    ELSE t.after.processed_through_date

C39_ExactlyTargetMinusBoundarySteps ==
    ProcessReturned =>
        /\ Len(trace) = Max(0, last.arg - last.P)
        /\ \A i \in DOMAIN trace :
            /\ trace[i].date = last.P + i
            /\ BoundaryAfterStep(trace[i]) = last.P + i
        /\ streaks[get_open_streak(Store)].processed_through_date
            = Max(last.P, last.arg)

\* A call over three days, every one of which closed a streak.
C39_Witness ==
    /\ ProcessReturned
    /\ Len(trace) >= 3
    /\ \A i \in DOMAIN trace : trace[i].ended

\* C40: after every completed process_up_to, for every rule in the OPEN streak's
\* rule_state whose window_days did not change during the streak, the stored
\* misses_in_window is the number of MISS logs of the rule on its applicable days
\* of the stored window, up to processed_through_date.
VersionsDuring(k, lo, hi) ==
    {r \in rule_defs : r.rule_key = k /\ \E d \in lo..hi : r \in ApplicableOn(d)}

WindowDaysOf(k, lo, hi) == {r.window_days : r \in VersionsDuring(k, lo, hi)}

RecountedMisses(s, k, w) ==
    LET lo == s.start_date + s.rule_state_json[k].widx * w
        hi == IF lo + w - 1 < s.processed_through_date
              THEN lo + w - 1 ELSE s.processed_through_date
    IN  Cardinality({d \in lo..hi : /\ \E r \in ApplicableOn(d) : r.rule_key = k
                                    /\ get_log_state(Store, d, k) = "MISS"})

CounterIsRecount(s) ==
    \A k \in DOMAIN s.rule_state_json :
        \A w \in WindowDaysOf(k, s.start_date, s.processed_through_date) :
            WindowDaysOf(k, s.start_date, s.processed_through_date) = {w}
                => s.rule_state_json[k].misses = RecountedMisses(s, k, w)

C40_CounterAgreesWithRecount ==
    ProcessReturned => CounterIsRecount(streaks[get_open_streak(Store)])

\* An OPEN streak in its second window holding a miss, under a rule whose version
\* changed without a change of window_days.
C40_Witness ==
    /\ ProcessReturned
    /\ LET s == streaks[get_open_streak(Store)]
       IN  \E k \in DOMAIN s.rule_state_json :
            /\ s.rule_state_json[k].misses >= 1
            /\ s.rule_state_json[k].widx >= 1
            /\ Cardinality(VersionsDuring(k, s.start_date, s.processed_through_date)) = 2
            /\ Cardinality(WindowDaysOf(k, s.start_date, s.processed_through_date)) = 1


\* C32: compute_discipline_index, compute_di_timeseries and compute_statistics are
\* read-only: a step in which one of them is called leaves the app_meta, streak, log
\* and rule records as they were, also when the store has no app_meta row yet.
ComputeOps == {"compute_discipline_index", "compute_di_timeseries", "compute_statistics"}

C32_ComputeIsReadOnly == [][last'.op \in ComputeOps => Store' = Store]_vars

\* C34: every row of compute_di_timeseries(end_date, plot_days, (W1, W2)) carries,
\* for each W of the two, the index compute_discipline_index(row date, W) returns on
\* the same store, also when days of the window have no applicable rule.
IndexOn(d, wdays) == compute_discipline_index(Store, d, wdays, today).di

RowIsIndex(row, windows) ==
    \A j \in 1..2 : FracEq(row.di[j], IndexOn(row.date, windows[j]))

C34_SeriesEqualsIndex ==
    (SeriesReturned /\ last.ok) =>
        \A i \in DOMAIN last.rows : RowIsIndex(last.rows[i], last.windows)


\* C35: on a valid catalog, for every rule_key and every day d walked in order, the
\* version under the forward cursor is applicable on d exactly when the resolver
\* _load_applicable_rule_rows_for_date returns a version of the key for d, and it is
\* that version, the only one whose inclusive range contains d; on a day inside a gap
\* neither has one.
Resolved(k, d) == {r \in load_applicable_rule_rows_for_date(Store, d) : r.rule_key = k}

InRange(k, d) ==
    {r \in rule_defs : /\ r.rule_key = k
                       /\ r.effective_from <= d
                       /\ (r.effective_to = NULL \/ d <= r.effective_to)}

CursorChoice(picks, k) ==
    IF k \in DOMAIN picks /\ picks[k].applies THEN {picks[k].row} ELSE {}

CatalogKeys == {r.rule_key : r \in rule_defs}

C35_CursorIsResolver ==
    last.op = "cursor_scan" =>
        \A i \in DOMAIN last.picks : \A k \in CatalogKeys :
            /\ CursorChoice(last.picks[i], k) = Resolved(k, last.start_date + i - 1)
            /\ CursorChoice(last.picks[i], k) = InRange(k, last.start_date + i - 1)

\* A walk from day 1 over a gap day of rule a, with one version before the gap and
\* another after it.
C35_Witness ==
    /\ last.op = "cursor_scan"
    /\ Len(last.picks) = 3
    /\ "a" \in DOMAIN last.picks[2]
    /\ last.picks[1]["a"].applies
    /\ ~last.picks[2]["a"].applies
    /\ last.picks[3]["a"].applies
    /\ last.picks[3]["a"].row # last.picks[1]["a"].row


\* C36: for a <= b and no write in between, process_up_to(a) followed by
\* process_up_to(b) leaves the streak rows (rule_state included) and the logs that a
\* single process_up_to(b) on the same store leaves, and the events of the two calls
\* in order are the events of the single call.
SameAsSingle(single, ok, db, evs) ==
    /\ ok = single.ok
    /\ db = single.db
    /\ evs = single.events

C36_TwoCallsEqualOne ==
    [][last'.op = "process_twice" =>
        SameAsSingle(process_up_to(Store, last'.arg, today), last'.ok, Store', events')]_vars

\* Two calls with a < b, each of which evaluated a day and closed a streak.
C36_Witness ==
    /\ last.op = "process_twice" /\ last.ok
    /\ last.first < last.arg
    /\ last.first_steps >= 1 /\ Len(trace) > last.first_steps
    /\ last.first_events >= 1 /\ Len(events) > last.first_events


\* C31: in every run of the page, process_up_to(yesterday) has completed before any
\* log read or write, any score or statistics computation and any admin operation of
\* the run: at each of them the OPEN streak's processed_through_date is at least
\* yesterday, and it still is when the run ends.
RunHandled == last.op \notin {"none", "stopped"}

C31_ProcessedBeforeHandlers ==
    RunHandled =>
        /\ last.P >= today - 1
        /\ get_open_streak(Store) # 0
        /\ streaks[get_open_streak(Store)].processed_through_date >= today - 1

\* A run that found the boundary two days back and then saved the form, computed a
\* score or changed the catalog.
C31_Witness ==
    /\ last.op \in {"upsert_logs_for_date", "compute_statistics", "admin_add_new_version"}
    /\ last.ok
    /\ last.before < today - 1
    /\ last.P = today - 1
====
